---- MODULE Spec2Model ----
(***************************************************************************)
(* The request execution engine of the Ascnd gRPC client                   *)
(* (src/src/client.cpp): the retry/backoff loop of Impl::make_request, the *)
(* error classifier, the client lock, the tracker of callback-based async  *)
(* operations and the teardown that waits for them; the construction of    *)
(* the client; the future-based async operations; and set_api_key and      *)
(* config() of the HTTP client (src/unnamed/part_007).                     *)
(*                                                                         *)
(* Every call on the client is run by its own thread; a call is a record   *)
(* whose pc is the thread's position in the code.                          *)
(***************************************************************************)
EXTENDS Integers, Sequences, FiniteSets, TLC

VARIABLES
    config,              \* Impl::config
    mutex,               \* Impl::mutex: 0 when free, else the call holding it
    pending_mutex,       \* Impl::pending_mutex: 0 when free, else its holder
    pending_operations,  \* Impl::pending_operations: the tracked futures
    calls,               \* the calls on the client, one thread each
    life,                \* the facade: "Constructing", "Failed", "Ready", "Closing", "Closed"
    dtor,                \* ~Impl's position in its loop over pending_operations
    transport,           \* the outcomes the channel can answer an attempt with
    stdlib,              \* the build: what ~unique_ptr does to impl_ (see StdLibs)
    channel,             \* the transport handle.  gRPC: Impl::channel and stub,
                         \* "none", "created", "released"; HTTP: the default
                         \* headers of Impl::http_client
    logging              \* the logging of the process: g_logging_init_flag,
                         \* g_logging_initialized, the glog backend and its
                         \* flags, and the threads that call into it

vars == <<config, mutex, pending_mutex, pending_operations, calls, life, dtor,
          transport, stdlib, channel, logging>>

----------------------------------------------------------------------------
\* Bounds of the model

\* largest max_retries a configuration of the retry specification draws
MaxRetries == 2
\* number of calls (threads) sharing the client
MaxCalls == 3
\* number of callback-based operations dispatched before the teardown
MaxOps == 2
\* max_retries of the client of the concurrent specifications
MaxRetriesShared == 1

----------------------------------------------------------------------------
\* grpc::StatusCode values the code names

OK == 0
DEADLINE_EXCEEDED == 4
RESOURCE_EXHAUSTED == 8
ABORTED == 10
UNAVAILABLE == 14

\* every grpc::StatusCode, OK .. UNAUTHENTICATED
StatusCodes == 0..16

\* error messages and payloads a server may send
Messages == {"m1", "m2"}
Payloads == {"p1", "p2"}
NoPayload == "none"

\* The outcome of one attempt (grpc::Status plus the response it filled in)
Outcome(code, msg, payload) == [code |-> code, msg |-> msg, payload |-> payload]

AllOutcomes ==
    {Outcome(OK, "", p) : p \in Payloads}
        \cup {Outcome(c, m, NoPayload) : c \in StatusCodes \ {OK}, m \in Messages}

\* the outcomes used where several calls run concurrently
FewOutcomes == {Outcome(OK, "", "p1"), Outcome(UNAVAILABLE, "m1", NoPayload)}

----------------------------------------------------------------------------
\* Result<T>

ResultOk(value) ==
    [success |-> TRUE, value |-> value, error_message |-> "", error_code |-> 0]

\* Result::error called without the code, which then defaults to 0
ResultError_nocode(error_message, error_code) ==
    [success |-> FALSE, value |-> NoPayload, error_message |-> error_message,
     error_code |-> 0]

ResultError(error_message, error_code) ==
    [success |-> FALSE, value |-> NoPayload, error_message |-> error_message,
     error_code |-> error_code]

NoResult == [success |-> FALSE, value |-> NoPayload, error_message |-> "unset",
             error_code |-> -1]

\* Result::error(error_message) with the code left to its default
ResultErrorDefault(error_message) == ResultError(error_message, 0)

is_ok(r) == r.success

\* is_error answering like is_ok
is_error_same(r) == r.success

is_error(r) == ~r.success

\* explicit operator bool
to_bool(r) == r.success

\* value(): *value_, which is undefined on an empty optional; every payload
\* and the empty one stand for what the read may give then
value(r) == IF r.value # NoPayload THEN {r.value} ELSE Payloads \cup {NoPayload}

\* value_or handing back the default whatever the Result holds
value_or_default(r, default_value) == default_value

\* value_or: success_ ? *value_ : std::move(default_value)
value_or(r, default_value) == IF r.success THEN r.value ELSE default_value

error(r) == r.error_message

error_code(r) == r.error_code

----------------------------------------------------------------------------
\* 32-bit signed arithmetic of the backoff computation

Int32Max == 2147483647
Int32Min == -Int32Max - 1

\* 2 * x in 32-bit two's complement
Double32(x) ==
    IF x >= 1073741824 THEN 2 * (x - 1073741824) + Int32Min
    ELSE IF x < -1073741824 THEN (2 * (x + 1073741824) + Int32Max) + 1
    ELSE 2 * x

\* x * 2^r in 32-bit two's complement
RECURSIVE TimesPow2(_, _)
TimesPow2(x, r) == IF r = 0 THEN x ELSE TimesPow2(Double32(x), r - 1)

\* The values `config.retry_delay_ms * (1 << retries)` can take.  In range,
\* the product; out of range the computation overflows a signed int, and a
\* build yields the wrapped product (for a shift count of 32 or more the
\* count is masked on some targets and the shifted value is 0 on others).
BackoffDelays(retry_delay_ms, retries) ==
    IF retries < 31 /\ retry_delay_ms <= Int32Max \div (2 ^ retries)
    THEN {retry_delay_ms * (2 ^ retries)}
    ELSE {TimesPow2(retry_delay_ms, retries % 32)}
             \cup (IF retries >= 32 THEN {0} ELSE {})

\* is_retryable_error with one case label too many (UNKNOWN retried too)
is_retryable_error_unknown(code) ==
    code \in {UNAVAILABLE, DEADLINE_EXCEEDED, RESOURCE_EXHAUSTED, ABORTED, 2}

\* is_retryable_error with the case list cut short (a lost case label)
is_retryable_error_lost_case(code) ==
    code \in {UNAVAILABLE, DEADLINE_EXCEEDED, RESOURCE_EXHAUSTED}

is_retryable_error(code) ==
    code \in {UNAVAILABLE, DEADLINE_EXCEEDED, RESOURCE_EXHAUSTED, ABORTED}

----------------------------------------------------------------------------
\* Logging: InitLogging, EnsureLoggingInitialized and ShutdownLogging

\* the threads that set up logging, construct clients and shut logging down
LogThreads == {1, 2}

\* LoggingOptions, told apart by min_level; a default LoggingOptions has kInfo
LogLevels == {"kError", "kWarning", "kInfo", "kDebug"}
DefaultLoggingOptions == "kInfo"

IdleLogThread ==
    [pc |-> "idle", op |-> "none", options |-> "none", left |-> 0,
     last |-> [op |-> "none", initialized |-> FALSE]]

\* a process in which nothing has touched logging: flag is
\* g_logging_init_flag, initialized is g_logging_initialized, options the
\* FLAGS_* that DoInitLogging sets, backend the state of glog; inits and
\* shutdowns count the runs of DoInitLogging and ShutdownGoogleLogging, and
\* winner keeps the options of the call that std::call_once let in first
NoLogging ==
    [flag |-> "unset", initialized |-> FALSE, options |-> "none",
     backend |-> "down", inits |-> 0, shutdowns |-> 0, winner |-> "none",
     threads |-> [t \in LogThreads |-> IdleLogThread]]

\* std::call_once running its callable whenever no other call is inside it
OnceRuns_always(flag) == flag # "running"

\* std::call_once(g_logging_init_flag, ...) runs its callable: only while the
\* flag is not set
OnceRuns(flag) == flag = "unset"

\* DoInitLogging(options): google::InitGoogleLogging, the FLAGS_* from the
\* options, g_logging_initialized = true
DoInitLogging(l, options) ==
    [l EXCEPT !.backend = "up", !.options = options, !.initialized = TRUE,
              !.inits = @ + 1]

\* EnsureLoggingInitialized() run from its beginning to its end
EnsureLoggingInitialized(l) ==
    IF OnceRuns(l.flag)
    THEN [DoInitLogging(l, DefaultLoggingOptions) EXCEPT
              !.flag = "done",
              !.winner = IF @ = "none" THEN DefaultLoggingOptions ELSE @]
    ELSE l

\* the logging of a process that has constructed a client and nothing else
ConstructedLogging == EnsureLoggingInitialized(NoLogging)

----------------------------------------------------------------------------
\* Configurations

NoKey == <<"", "">>
Key(k) == <<k, k>>

Config(max_retries, retry_delay_ms, api_key) ==
    [server_address |-> "localhost:50051", api_key |-> api_key,
     connection_timeout_ms |-> 100, request_timeout_ms |-> 100,
     max_retries |-> max_retries, retry_delay_ms |-> retry_delay_ms,
     use_ssl |-> FALSE, user_agent |-> "", verbose |-> FALSE]

\* validate rejecting a retry count and a delay of zero too
validate_positive(cfg) ==
    /\ cfg.server_address # ""
    /\ cfg.connection_timeout_ms > 0
    /\ cfg.request_timeout_ms > 0
    /\ cfg.max_retries > 0
    /\ cfg.retry_delay_ms > 0

\* ClientConfig::validate, as the constructor applies it
validate(cfg) ==
    /\ cfg.server_address # ""
    /\ cfg.connection_timeout_ms > 0
    /\ cfg.request_timeout_ms > 0
    /\ cfg.max_retries >= 0
    /\ cfg.retry_delay_ms >= 0

RetryDelays == {0, 100, 1073741824}

----------------------------------------------------------------------------
\* Calls

CallIds == 1..MaxCalls

NoContext == [authorization |-> <<"unset">>, deadline |-> 0]

\* The request messages.  A field that was never set holds its default.
NoRequest == [op |-> "none"]

SubmitScoreRequest ==
    [op |-> "SubmitScore", leaderboard_id |-> "", player_id |-> "", score |-> 0,
     metadata |-> "", idempotency_key |-> ""]

GetLeaderboardRequest ==
    [op |-> "GetLeaderboard", leaderboard_id |-> "", limit |-> 0, offset |-> 0,
     period |-> "", view_slug |-> ""]

GetPlayerRankRequest ==
    [op |-> "GetPlayerRank", leaderboard_id |-> "", player_id |-> "",
     period |-> "", view_slug |-> ""]

IdleCall ==
    [kind |-> "none", pc |-> "idle", retries |-> 0,
     status |-> Outcome(OK, "", NoPayload), response |-> NoPayload,
     result |-> NoResult, log |-> <<>>, sleeps |-> <<>>, ctx |-> NoContext,
     arg |-> NoKey, snap |-> Config(-1, -1, NoKey), connected |-> FALSE,
     disp |-> "none", by |-> 0, cb |-> "none", exception |-> "none",
     now |-> 0, deadline |-> 0, request |-> NoRequest, facade |-> "client1"]

\* where a thread goes when make_request has returned: the worker of a
\* callback-based operation invokes the callback, a synchronous caller is done
AfterRequest(kind) == IF kind = "callback" THEN "cb" ELSE "done"

----------------------------------------------------------------------------
\* The facade's impl_ as the threads find it.  A worker's lambda captures
\* `this` (the facade) and loads impl_ when submit_score calls
\* impl_->make_request and again at every attempt (impl_->stub->...).

\* ~AscndClient is defaulted: impl_ is destroyed by ~unique_ptr.  libstdc++
\* and the MSVC library run the deleter with the stored pointer still in
\* place; libc++ runs reset(), which stores nullptr first and then ~Impl.
StdLibs == {"keeps_pointer", "nulls_pointer"}

\* What loading and following impl_ gives: the Impl while the client lives;
\* during ~Impl the Impl, or a null pointer where ~unique_ptr stored one
\* first; once ~Impl is over, freed memory, which may still read as before
\* or fault.
ImplDeref ==
    IF life = "Closed" THEN {"valid", "fault"}
    ELSE IF life = "Closing" /\ stdlib = "nulls_pointer" THEN {"fault"}
    ELSE {"valid"}

\* The impl_ that call c loads: the one of the facade the call was made on.
\* AscndClient(AscndClient&&) = default moves the unique_ptr, which leaves
\* the impl_ of the moved-from facade (client1) null, while the Impl lives on
\* under the new facade (client2).
ImplDerefBy(c) ==
    IF life = "Moved"
    THEN (IF calls[c].facade = "client1" THEN {"fault"} ELSE {"valid"})
    ELSE ImplDeref

\* a thread has faulted on impl_ (a worker in its request, or the thread
\* registering an operation): the process is gone
Crashed == \E c \in CallIds : calls[c].pc = "crashed" \/ calls[c].disp = "crashed"

----------------------------------------------------------------------------
\* Impl::create_context: the credential goes into the metadata only if set

\* create_context sending the credential the client was constructed with
create_context_stale(now) ==
    [authorization |-> <<"Bearer", Key("k0")>>,
     deadline |-> now + config.request_timeout_ms]

\* create_context giving every attempt the deadline of the first one
create_context_shared(now) ==
    [authorization |->
        IF config.api_key # NoKey THEN <<"Bearer", config.api_key>> ELSE <<>>,
     deadline |-> config.request_timeout_ms]

\* `now` is system_clock::now() as the calling thread reads it, in ms since
\* its call began
create_context(now) ==
    [authorization |->
        IF config.api_key # NoKey THEN <<"Bearer", config.api_key>> ELSE <<>>,
     deadline |-> now + config.request_timeout_ms]

\* the time an attempt takes: up to its deadline when that is what ends it
AttemptMs == 20
Duration(o, now, deadline) ==
    IF o.code = DEADLINE_EXCEEDED THEN deadline - now ELSE AttemptMs

----------------------------------------------------------------------------
\* Impl::make_request

\* a retry sent under an idempotency key of its own
RequestSent_rekeyed(request, retries) ==
    IF request.op = "SubmitScore" /\ retries > 0
    THEN [request EXCEPT !.idempotency_key = "retry"]
    ELSE request

\* rpc_func(context.get(), request, &response): the request of the attempt
\* is the caller's, taken by const reference
RequestSent(request, retries) == request

\* status.ok() never true (the success test left out)
StatusOk_never(status) == FALSE

StatusOk(status) == status.code = OK

\* the loop condition off by one, one attempt short
LoopContinues_short(retries) == retries < config.max_retries

\* the loop condition off by one, one attempt more
LoopContinues_long(retries) == retries <= config.max_retries + 1

\* while (retries <= config.max_retries)
LoopContinues(retries) == retries <= config.max_retries

\* the backoff guard letting the last permitted attempt sleep too
SleepsBeforeRetry_always(retries) == retries <= config.max_retries

\* if (retries < config.max_retries)
SleepsBeforeRetry(retries) == retries < config.max_retries

\* make_request entered without taking the lock
MrLock_nolock(c) ==
    /\ ~Crashed
    /\ calls[c].pc = "mr_lock"
    /\ calls' = [calls EXCEPT ![c].pc = "mr_loop", ![c].retries = 0]
    /\ UNCHANGED <<config, mutex, pending_mutex, pending_operations, life, dtor,
                   transport, stdlib, channel, logging>>

\* impl_->make_request(...): std::lock_guard<std::mutex> lock(mutex);
\* int retries = 0;
MrLock(c) ==
    /\ ~Crashed
    /\ calls[c].pc = "mr_lock"
    /\ \E impl \in ImplDerefBy(c) :
           IF impl = "fault"
           THEN /\ calls' = [calls EXCEPT ![c].pc = "crashed"]
                /\ UNCHANGED mutex
           ELSE /\ mutex = 0
                /\ mutex' = c
                /\ calls' = [calls EXCEPT ![c].pc = "mr_loop", ![c].retries = 0]
    /\ UNCHANGED <<config, pending_mutex, pending_operations, life, dtor,
                   transport, stdlib, channel, logging>>

\* the loop test; when it passes, create_context() and rpc_func is called,
\* which sends the RPC through impl_->stub
MrLoop(c) ==
    /\ ~Crashed
    /\ calls[c].pc = "mr_loop"
    /\ IF LoopContinues(calls[c].retries)
       THEN \E impl \in ImplDerefBy(c) :
                calls' = IF impl = "fault"
                         THEN [calls EXCEPT ![c].pc = "crashed",
                                            ![c].ctx = create_context(calls[c].now)]
                         ELSE [calls EXCEPT ![c].pc = "mr_rpc",
                                            ![c].ctx = create_context(calls[c].now)]
       ELSE calls' = [calls EXCEPT ![c].pc = "mr_fail"]
    /\ UNCHANGED <<config, mutex, pending_mutex, pending_operations, life, dtor,
                   transport, stdlib, channel, logging>>

\* the RPC returns with outcome o, and the rest of the loop body runs up to
\* the return, the break, the sleep or the next iteration
MrRpc(c) ==
    /\ ~Crashed
    /\ calls[c].pc = "mr_rpc"
    /\ \E o \in transport :
        LET me == calls[c]
            entry == [code |-> o.code, msg |-> o.msg, payload |-> o.payload,
                      ctx |-> me.ctx, req |-> RequestSent(me.request, me.retries),
                      start |-> me.now,
                      retryable |-> ~StatusOk(o) /\ is_retryable_error(o.code)]
            seen == [me EXCEPT !.status = o, !.log = Append(me.log, entry),
                               !.now = me.now + Duration(o, me.now, me.ctx.deadline)]
        IN  IF StatusOk(o)
            THEN /\ calls' = [calls EXCEPT ![c] =
                        [seen EXCEPT !.response = o.payload,
                                     !.result = ResultOk(o.payload),
                                     !.pc = AfterRequest(me.kind)]]
                 /\ mutex' = 0
            ELSE IF ~is_retryable_error(o.code)
            THEN /\ calls' = [calls EXCEPT ![c] = [seen EXCEPT !.pc = "mr_fail"]]
                 /\ UNCHANGED mutex
            ELSE IF SleepsBeforeRetry(me.retries)
            THEN /\ \E delay \in BackoffDelays(config.retry_delay_ms, me.retries) :
                        calls' = [calls EXCEPT ![c] =
                            [seen EXCEPT !.pc = "mr_sleep",
                                         !.sleeps = Append(me.sleeps,
                                             [after |-> me.retries, delay |-> delay])]]
                 /\ UNCHANGED mutex
            ELSE /\ calls' = [calls EXCEPT ![c] =
                        [seen EXCEPT !.pc = "mr_loop", !.retries = me.retries + 1]]
                 /\ UNCHANGED mutex
    /\ UNCHANGED <<config, pending_mutex, pending_operations, life, dtor,
                   transport, stdlib, channel, logging>>

\* std::this_thread::sleep_for returns; ++retries
MrSleep(c) ==
    /\ ~Crashed
    /\ calls[c].pc = "mr_sleep"
    /\ LET delay == calls[c].sleeps[Len(calls[c].sleeps)].delay
       IN  calls' = [calls EXCEPT
               ![c].pc = "mr_loop", ![c].retries = calls[c].retries + 1,
               ![c].now = calls[c].now + (IF delay > 0 THEN delay ELSE 0)]
    /\ UNCHANGED <<config, mutex, pending_mutex, pending_operations, life, dtor,
                   transport, stdlib, channel, logging>>

\* after the loop: return Result::error(status.error_message(), code)
\* make_request returning at its end with the lock_guard's mutex still held
MrFail_keeps_lock(c) ==
    /\ ~Crashed
    /\ calls[c].pc = "mr_fail"
    /\ calls' = [calls EXCEPT
                    ![c].result = ResultError(calls[c].status.msg, calls[c].status.code),
                    ![c].pc = AfterRequest(calls[c].kind)]
    /\ UNCHANGED <<config, mutex, pending_mutex, pending_operations, life, dtor,
                   transport, stdlib, channel, logging>>

\* the loop has ended: return Result<ResponseT>::error(...)
MrFail(c) ==
    /\ ~Crashed
    /\ calls[c].pc = "mr_fail"
    /\ calls' = [calls EXCEPT
                    ![c].result = ResultError(calls[c].status.msg, calls[c].status.code),
                    ![c].pc = AfterRequest(calls[c].kind)]
    /\ mutex' = 0
    /\ UNCHANGED <<config, pending_mutex, pending_operations, life, dtor,
                   transport, stdlib, channel, logging>>

make_request(c) ==
    \/ MrLock(c)
    \/ MrLoop(c)
    \/ MrRpc(c)
    \/ MrSleep(c)
    \/ MrFail(c)

----------------------------------------------------------------------------
\* The retry engine alone: one synchronous request on a client configured
\* with any accepted retry budget and base delay, any outcome per attempt

RetryConfigs ==
    {cfg \in {Config(n, d, Key("k0")) : n \in 0..MaxRetries, d \in RetryDelays} :
        validate(cfg)}

InitRetry ==
    /\ config \in RetryConfigs
    /\ mutex = 0
    /\ pending_mutex = 0
    /\ pending_operations = <<>>
    /\ calls = [c \in CallIds |->
                  IF c = 1 THEN [IdleCall EXCEPT !.kind = "sync", !.pc = "mr_lock"]
                  ELSE IdleCall]
    /\ life = "Ready"
    /\ dtor = [i |-> 0, outstanding |-> 0]
    /\ transport = AllOutcomes
    /\ stdlib \in StdLibs
    /\ channel = "created"
    /\ logging = ConstructedLogging

NextRetry == \E c \in CallIds : make_request(c)

SpecRetry == InitRetry /\ [][NextRetry]_vars

\* every attempt returns and the thread keeps running
FairSpecRetry == SpecRetry /\ WF_vars(NextRetry)

\* Call ids number the calls in the order they are made
CanStart(c) ==
    /\ life = "Ready"
    /\ calls[c].pc = "idle"
    /\ \A b \in CallIds : b < c => calls[b].pc # "idle"

----------------------------------------------------------------------------
\* Synchronous requests from user threads: submit_score, get_leaderboard and
\* get_player_rank all go through make_request

StartSync(c) ==
    /\ CanStart(c)
    /\ calls' = [calls EXCEPT ![c].kind = "sync", ![c].pc = "mr_lock"]
    /\ UNCHANGED <<config, mutex, pending_mutex, pending_operations, life, dtor,
                   transport, stdlib, channel, logging>>

----------------------------------------------------------------------------
\* AscndClient::set_api_key.  The key is a string: its assignment writes it
\* piece by piece, here in two halves.

ApiKeys == {NoKey, Key("k1"), Key("k2")}

StartSetApiKey(c) ==
    /\ CanStart(c)
    /\ \E k \in ApiKeys :
           calls' = [calls EXCEPT ![c].kind = "set_api_key", ![c].pc = "sk_lock",
                                  ![c].arg = k]
    /\ UNCHANGED <<config, mutex, pending_mutex, pending_operations, life, dtor,
                   transport, stdlib, channel, logging>>

\* set_api_key going on to the write without the lock
SkLock_nolock(c) ==
    /\ calls[c].pc = "sk_lock"
    /\ calls' = [calls EXCEPT ![c].pc = "sk_write"]
    /\ UNCHANGED <<config, mutex, pending_mutex, pending_operations, life, dtor,
                   transport, stdlib, channel, logging>>

\* std::lock_guard<std::mutex> lock(impl_->mutex);
SkLock(c) ==
    /\ calls[c].pc = "sk_lock"
    /\ mutex = 0
    /\ mutex' = c
    /\ calls' = [calls EXCEPT ![c].pc = "sk_write"]
    /\ UNCHANGED <<config, pending_mutex, pending_operations, life, dtor,
                   transport, stdlib, channel, logging>>

\* set_api_key storing a fresh configuration that holds the new key
SkWrite_fresh(c) ==
    /\ calls[c].pc = "sk_write"
    /\ config' = Config(3, 100, <<calls[c].arg[1], config.api_key[2]>>)
    /\ calls' = [calls EXCEPT ![c].pc = "sk_finish"]
    /\ UNCHANGED <<mutex, pending_mutex, pending_operations, life, dtor,
                   transport, stdlib, channel, logging>>

\* impl_->config.api_key = api_key; the first half is written
SkWrite(c) ==
    /\ calls[c].pc = "sk_write"
    /\ config' = [config EXCEPT !.api_key[1] = calls[c].arg[1]]
    /\ calls' = [calls EXCEPT ![c].pc = "sk_finish"]
    /\ UNCHANGED <<mutex, pending_mutex, pending_operations, life, dtor,
                   transport, stdlib, channel, logging>>

\* the second half is written and the lock released
SkFinish(c) ==
    /\ calls[c].pc = "sk_finish"
    /\ config' = [config EXCEPT !.api_key[2] = calls[c].arg[2]]
    /\ mutex' = 0
    /\ calls' = [calls EXCEPT ![c].pc = "done"]
    /\ UNCHANGED <<pending_mutex, pending_operations, life, dtor,
                   transport, stdlib, channel, logging>>

set_api_key(c) == SkLock(c) \/ SkWrite(c) \/ SkFinish(c)

----------------------------------------------------------------------------
\* AscndClient::config: the copy is made field by field, the key in halves

StartConfig(c) ==
    /\ CanStart(c)
    /\ calls' = [calls EXCEPT ![c].kind = "config", ![c].pc = "cf_lock"]
    /\ UNCHANGED <<config, mutex, pending_mutex, pending_operations, life, dtor,
                   transport, stdlib, channel, logging>>

\* config() entered without taking the lock
CfLock_nolock(c) ==
    /\ calls[c].pc = "cf_lock"
    /\ calls' = [calls EXCEPT ![c].pc = "cf_copy"]
    /\ UNCHANGED <<config, mutex, pending_mutex, pending_operations, life, dtor,
                   transport, stdlib, channel, logging>>

\* std::lock_guard<std::mutex> lock(impl_->mutex);
CfLock(c) ==
    /\ calls[c].pc = "cf_lock"
    /\ mutex = 0
    /\ mutex' = c
    /\ calls' = [calls EXCEPT ![c].pc = "cf_copy"]
    /\ UNCHANGED <<config, pending_mutex, pending_operations, life, dtor,
                   transport, stdlib, channel, logging>>

\* return impl_->config; the first half of the key and the other fields
CfCopy(c) ==
    /\ calls[c].pc = "cf_copy"
    /\ calls' = [calls EXCEPT ![c].pc = "cf_finish",
                              ![c].snap = [config EXCEPT !.api_key[2] = "?"]]
    /\ UNCHANGED <<config, mutex, pending_mutex, pending_operations, life, dtor,
                   transport, stdlib, channel, logging>>

\* the second half of the key is copied and the lock released
CfFinish(c) ==
    /\ calls[c].pc = "cf_finish"
    /\ calls' = [calls EXCEPT ![c].pc = "done",
                              ![c].snap.api_key[2] = config.api_key[2]]
    /\ mutex' = 0
    /\ UNCHANGED <<config, pending_mutex, pending_operations, life, dtor,
                   transport, stdlib, channel, logging>>

config_copy(c) == CfLock(c) \/ CfCopy(c) \/ CfFinish(c)

----------------------------------------------------------------------------
\* AscndClient::ping

StartPing(c) ==
    /\ CanStart(c)
    /\ calls' = [calls EXCEPT ![c].kind = "ping", ![c].pc = "pg_lock"]
    /\ UNCHANGED <<config, mutex, pending_mutex, pending_operations, life, dtor,
                   transport, stdlib, channel, logging>>

\* when the channel becomes connected, in ms after the wait began
Never == -1
ConnectTimes == {50, 150, Never}

\* WaitForConnected answering true whenever the channel connects at all
WithinDeadline_late(t, now, deadline) == t # Never

\* channel->WaitForConnected(deadline): true iff connected by the deadline
WithinDeadline(t, now, deadline) == t # Never /\ now + t <= deadline

\* std::lock_guard<std::mutex> lock(impl_->mutex);
\* deadline = system_clock::now() + milliseconds(connection_timeout_ms)
PgLock(c) ==
    /\ calls[c].pc = "pg_lock"
    /\ mutex = 0
    /\ mutex' = c
    /\ calls' = [calls EXCEPT ![c].pc = "pg_wait",
                              ![c].deadline =
                                  calls[c].now + config.connection_timeout_ms]
    /\ UNCHANGED <<config, pending_mutex, pending_operations, life, dtor,
                   transport, stdlib, channel, logging>>

\* channel->WaitForConnected(deadline) returns; return connected
PgFinish(c) ==
    /\ calls[c].pc = "pg_wait"
    /\ \E t \in ConnectTimes :
           LET connected == WithinDeadline(t, calls[c].now, calls[c].deadline)
           IN  calls' = [calls EXCEPT
                   ![c].pc = "done", ![c].connected = connected,
                   ![c].now = IF connected THEN calls[c].now + t
                                           ELSE calls[c].deadline]
    /\ mutex' = 0
    /\ UNCHANGED <<config, pending_mutex, pending_operations, life, dtor,
                   transport, stdlib, channel, logging>>

ping(c) == PgLock(c) \/ PgFinish(c)

----------------------------------------------------------------------------
\* Callback-based async operations and their tracker

\* the future of operation f is ready: its worker has run to the end
FutureReady(f) == calls[f].pc = "done"

\* submit_score_async(request, callback): std::async starts the worker, which
\* runs beside the dispatching thread from here on
Dispatch(c) ==
    /\ CanStart(c)
    /\ c <= MaxOps
    /\ calls' = [calls EXCEPT ![c].kind = "callback", ![c].pc = "mr_lock",
                              ![c].disp = "adding"]
    /\ UNCHANGED <<config, mutex, pending_mutex, pending_operations, life, dtor,
                   transport, stdlib, channel, logging>>

\* the remove_if predicate erasing every tracked future
Prunable_all(f) == TRUE

\* !f.valid() || f.wait_for(0s) == ready; every tracked future is valid
Prunable(f) == FutureReady(f)

\* impl_->add_pending_operation(std::move(future)), under pending_mutex,
\* run by the thread that dispatched operation c
add_pending_operation(c) ==
    /\ ~Crashed
    /\ calls[c].disp = "adding"
    /\ \E impl \in ImplDerefBy(c) :
           IF impl = "fault"
           THEN /\ calls' = [calls EXCEPT ![c].disp = "crashed"]
                /\ UNCHANGED pending_operations
           ELSE /\ pending_mutex = 0
                /\ pending_operations' =
                       Append(SelectSeq(pending_operations, LAMBDA f : ~Prunable(f)), c)
                /\ calls' = [calls EXCEPT ![c].disp = "added"]
    /\ UNCHANGED <<config, mutex, pending_mutex, life, dtor,
                   transport, stdlib, channel, logging>>

\* the callback of operation c is still inside a submit_score_async it called
Registering(c) == \E d \in CallIds : calls[d].by = c /\ calls[d].disp = "adding"

\* the callback of operation c is inside a synchronous call it made on the
\* client (a request, set_api_key, config() or ping)
Calling(c) ==
    \E d \in CallIds :
        /\ calls[d].by = c
        /\ calls[d].kind \in {"sync", "set_api_key", "config", "ping"}
        /\ calls[d].pc \notin {"done", "crashed"}

\* The callback of operation c, running on its worker, dispatches another
\* callback-based operation d on the same client (once): std::async starts
\* the worker of d; the registration of d is add_pending_operation(d), and
\* the callback goes on when that has returned.  Nothing in
\* submit_score_async looks at the state of the client.
CallbackDispatches(c) ==
    /\ ~Crashed
    /\ calls[c].pc = "cb"
    /\ \A d \in CallIds : calls[d].by # c
    /\ \E d \in CallIds :
           /\ d <= MaxOps
           /\ calls[d].pc = "idle"
           /\ \A b \in CallIds : b < d => calls[b].pc # "idle"
           /\ calls' = [calls EXCEPT ![d].kind = "callback", ![d].pc = "mr_lock",
                                     ![d].disp = "adding", ![d].by = c]
    /\ UNCHANGED <<config, mutex, pending_mutex, pending_operations, life, dtor,
                   transport, stdlib, channel, logging>>

\* callback(std::move(result)) returns
CallbackReturns(c) ==
    /\ ~Crashed
    /\ calls[c].pc = "cb"
    /\ ~Registering(c)
    /\ ~Calling(c)
    /\ calls' = [calls EXCEPT ![c].pc = "done", ![c].cb = "returned"]
    /\ UNCHANGED <<config, mutex, pending_mutex, pending_operations, life, dtor,
                   transport, stdlib, channel, logging>>

\* what a callback may throw: something derived from std::exception, or not
Exceptions == {"std::exception", "other"}

\* the worker's handlers with catch (...) left out
Catches_std_only(e) == e = "std::exception"

\* catch (const std::exception& e) {...} catch (...) {...}
Catches(e) == e = "std::exception" \/ e \in Exceptions

\* callback(std::move(result)) throws.  A handler of the worker catches the
\* exception and logs it; one that no handler caught would leave the
\* lambda and be stored in the future by std::async.
CallbackThrows(c) ==
    /\ ~Crashed
    /\ calls[c].pc = "cb"
    /\ ~Registering(c)
    /\ ~Calling(c)
    /\ \E e \in Exceptions :
           calls' = [calls EXCEPT ![c].pc = "done", ![c].cb = "threw",
                                  ![c].exception =
                                      IF Catches(e) THEN "logged" ELSE "in_future"]
    /\ UNCHANGED <<config, mutex, pending_mutex, pending_operations, life, dtor,
                   transport, stdlib, channel, logging>>

----------------------------------------------------------------------------
\* Teardown: ~AscndClient destroys impl_, and ~Impl waits for the tracked
\* operations.  The client is destroyed when the calls made on it have
\* returned; the workers of callback-based operations may still be running.

CallReturned(c) ==
    \/ calls[c].pc = "idle"
    \/ calls[c].kind = "callback" /\ (calls[c].disp = "added" \/ calls[c].by # 0)
    \/ calls[c].kind = "future"
    \/ calls[c].kind \notin {"callback", "future"} /\ calls[c].pc = "done"

Outstanding == {c \in CallIds : calls[c].kind = "callback" /\ ~FutureReady(c)}

DtorHolder == -1

DtorBegin ==
    /\ life = "Ready"
    /\ \A c \in CallIds : CallReturned(c)
    /\ life' = "Closing"
    /\ dtor' = [i |-> 0, outstanding |-> Cardinality(Outstanding)]
    /\ UNCHANGED <<config, mutex, pending_mutex, pending_operations, calls,
                   transport, stdlib, channel, logging>>

\* std::lock_guard<std::mutex> lock(pending_mutex);
DtorLock ==
    /\ ~Crashed
    /\ life = "Closing"
    /\ dtor.i = 0
    /\ pending_mutex = 0
    /\ pending_mutex' = DtorHolder
    /\ dtor' = [dtor EXCEPT !.i = 1]
    /\ UNCHANGED <<config, mutex, pending_operations, calls, life,
                   transport, stdlib, channel, logging>>

\* the loop going on to the next future without waiting for this one
DtorWait_nowait ==
    /\ ~Crashed
    /\ life = "Closing"
    /\ dtor.i \in 1..Len(pending_operations)
    /\ dtor' = [dtor EXCEPT !.i = dtor.i + 1]
    /\ UNCHANGED <<config, mutex, pending_mutex, pending_operations, calls, life,
                   transport, stdlib, channel, logging>>

\* if (future.valid()) future.wait(); returns once the future is ready
DtorWait ==
    /\ ~Crashed
    /\ life = "Closing"
    /\ dtor.i \in 1..Len(pending_operations)
    /\ FutureReady(pending_operations[dtor.i])
    /\ dtor' = [dtor EXCEPT !.i = dtor.i + 1]
    /\ UNCHANGED <<config, mutex, pending_mutex, pending_operations, calls, life,
                   transport, stdlib, channel, logging>>

\* the loop is over: ~Impl returns and the members are destroyed
DtorEnd ==
    /\ ~Crashed
    /\ life = "Closing"
    /\ dtor.i > Len(pending_operations)
    /\ pending_mutex' = 0
    /\ life' = "Closed"
    /\ channel' = "released"
    /\ UNCHANGED <<config, mutex, pending_operations, calls, dtor, transport, stdlib,
                   logging>>

----------------------------------------------------------------------------
\* Future-based async operations: the worker runs the synchronous call and
\* the future goes to the caller; the client keeps no track of it

\* std::future<Result<...>> submit_score_async(request): std::async starts
\* the worker and its future is returned at once
DispatchFuture(c) ==
    /\ CanStart(c)
    /\ c <= MaxOps
    /\ calls' = [calls EXCEPT ![c].kind = "future", ![c].pc = "mr_lock",
                              ![c].disp = "valid"]
    /\ UNCHANGED <<config, mutex, pending_mutex, pending_operations, life, dtor,
                   transport, stdlib, channel, logging>>

----------------------------------------------------------------------------
\* Construction.  The configuration the caller passes is drawn from
\* CandidateConfigs; Impl's member initializer moves it into Impl::config.

\* a default-constructed ClientConfig
DefaultConfig ==
    [server_address |-> "", api_key |-> NoKey, connection_timeout_ms |-> 5000,
     request_timeout_ms |-> 10000, max_retries |-> 3, retry_delay_ms |-> 100,
     use_ssl |-> TRUE, user_agent |-> "", verbose |-> FALSE]

CandidateConfigs ==
    {[DefaultConfig EXCEPT !.server_address = a, !.api_key = k,
                           !.connection_timeout_ms = ct, !.request_timeout_ms = rt,
                           !.max_retries = n, !.retry_delay_ms = d,
                           !.user_agent = ua] :
        a \in {"", "localhost:50051"}, k \in {NoKey, Key("k0")},
        ct \in {-1, 0, 1, 5000}, rt \in {-1, 0, 1, 10000},
        n \in {-1, 0, 3}, d \in {-1, 0, 100}, ua \in {"", "MyGame/1.0"}}

\* the constructor going on after config.validate() whatever it found
CtorThrows_never(cfg) == FALSE

\* config.validate(); throws std::invalid_argument, which leaves the
\* constructor of Impl and that of AscndClient
CtorThrows(cfg) == ~validate(cfg)

\* Impl::Impl(ClientConfig cfg): validate, then EnsureLoggingInitialized and
\* init_channel
ImplCtor(cfg) ==
    /\ config' = cfg
    /\ IF CtorThrows(cfg)
       THEN life' = "Failed" /\ UNCHANGED <<channel, logging>>
       ELSE /\ life' = "Ready"
            /\ channel' = "created"
            /\ logging' = EnsureLoggingInitialized(logging)
    /\ UNCHANGED <<mutex, pending_mutex, pending_operations, calls, dtor, transport,
                   stdlib>>

\* AscndClient::AscndClient(ClientConfig config)
ConstructFromConfig ==
    /\ life = "Constructing"
    /\ ImplCtor(config)

\* AscndClient::AscndClient(server_address, api_key): a default ClientConfig
\* with these two fields set
ConstructFromAddress ==
    /\ life = "Constructing"
    /\ ImplCtor([DefaultConfig EXCEPT !.server_address = config.server_address,
                                      !.api_key = config.api_key])

InitConstruct ==
    /\ config \in CandidateConfigs
    /\ mutex = 0
    /\ pending_mutex = 0
    /\ pending_operations = <<>>
    /\ calls = [c \in CallIds |-> IdleCall]
    /\ life = "Constructing"
    /\ dtor = [i |-> 0, outstanding |-> 0]
    /\ transport = FewOutcomes
    /\ stdlib \in StdLibs
    /\ channel = "none"
    /\ logging = NoLogging

\* a client is constructed and, unused, destroyed
NextConstruct ==
    \/ ConstructFromConfig
    \/ ConstructFromAddress
    \/ DtorBegin
    \/ DtorLock
    \/ DtorEnd

SpecConstruct == InitConstruct /\ [][NextConstruct]_vars

----------------------------------------------------------------------------
\* The client shared by several threads

SharedConfigs ==
    {cfg \in {Config(MaxRetriesShared, 100, Key("k0"))} : validate(cfg)}

Init ==
    /\ config \in SharedConfigs
    /\ mutex = 0
    /\ pending_mutex = 0
    /\ pending_operations = <<>>
    /\ calls = [c \in CallIds |-> IdleCall]
    /\ life = "Ready"
    /\ dtor = [i |-> 0, outstanding |-> 0]
    /\ transport = FewOutcomes
    /\ stdlib \in StdLibs
    /\ channel = "created"
    /\ logging = ConstructedLogging

\* threads sharing the client: requests, set_api_key, config() and ping
NextShared ==
    \E c \in CallIds :
        \/ StartSync(c)
        \/ make_request(c)
        \/ StartSetApiKey(c)
        \/ set_api_key(c)
        \/ StartConfig(c)
        \/ config_copy(c)
        \/ StartPing(c)
        \/ ping(c)

SpecShared == Init /\ [][NextShared]_vars

\* callback-based operations dispatched on the client, then its teardown
NextTeardown ==
    \/ \E c \in CallIds :
        \/ Dispatch(c)
        \/ add_pending_operation(c)
        \/ make_request(c)
        \/ CallbackReturns(c)
        \/ CallbackThrows(c)
    \/ DtorBegin
    \/ DtorLock
    \/ DtorWait
    \/ DtorEnd

SpecTeardown == Init /\ [][NextTeardown]_vars

\* every thread keeps running: a worker goes on while it can, the dispatching
\* thread registers its future, and the destructor goes on once it may
FairSpecTeardown ==
    /\ SpecTeardown
    /\ \A c \in CallIds :
           /\ WF_vars(make_request(c) \/ CallbackReturns(c) \/ CallbackThrows(c))
           /\ WF_vars(add_pending_operation(c))
    /\ WF_vars(DtorLock \/ DtorWait \/ DtorEnd)

\* the same, with callbacks that dispatch further operations
NextNested ==
    \/ \E c \in CallIds :
        \/ Dispatch(c)
        \/ add_pending_operation(c)
        \/ make_request(c)
        \/ CallbackDispatches(c)
        \/ CallbackReturns(c)
        \/ CallbackThrows(c)
    \/ DtorBegin
    \/ DtorLock
    \/ DtorWait
    \/ DtorEnd

SpecNested == Init /\ [][NextNested]_vars

\* every thread keeps running: workers and their callbacks go on while they
\* can, a dispatching thread registers its future, the destructor goes on
\* once it may
FairSpecNested ==
    /\ SpecNested
    /\ \A c \in CallIds :
           /\ WF_vars(make_request(c) \/ CallbackReturns(c) \/ CallbackThrows(c))
           /\ WF_vars(add_pending_operation(c))
    /\ WF_vars(DtorLock \/ DtorWait \/ DtorEnd)

\* future-based operations dispatched on the client, then its teardown
\* (nothing is tracked, so ~Impl's loop has nothing to wait for)
NextFuture ==
    \/ \E c \in CallIds :
        \/ DispatchFuture(c)
        \/ make_request(c)
    \/ DtorBegin
    \/ DtorLock
    \/ DtorEnd

SpecFuture == Init /\ [][NextFuture]_vars

\* the workers and the destructor keep running
FairSpecFuture ==
    /\ SpecFuture
    /\ \A c \in CallIds : WF_vars(make_request(c))
    /\ WF_vars(DtorLock \/ DtorEnd)

----------------------------------------------------------------------------
\* Move construction: AscndClient client2 = std::move(client1)

\* AscndClient(AscndClient&&) noexcept = default: impl_ goes from client1 to
\* client2, made by a thread of the user while no call of a user thread is
\* inside client1; the workers dispatched on client1 are not looked at
MoveConstruct ==
    /\ life = "Ready"
    /\ \A c \in CallIds : CallReturned(c)
    /\ life' = "Moved"
    /\ UNCHANGED <<config, mutex, pending_mutex, pending_operations, calls, dtor,
                   transport, stdlib, channel, logging>>

\* a call can start on client2: the calls are taken up in the order of their ids
CanStartMoved(c) ==
    /\ life = "Moved"
    /\ calls[c].pc = "idle"
    /\ \A b \in CallIds : b < c => calls[b].pc # "idle"

\* client2.submit_score(request)
StartSyncMoved(c) ==
    /\ CanStartMoved(c)
    /\ calls' = [calls EXCEPT ![c].kind = "sync", ![c].pc = "mr_lock",
                              ![c].facade = "client2"]
    /\ UNCHANGED <<config, mutex, pending_mutex, pending_operations, life, dtor,
                   transport, stdlib, channel, logging>>

\* client2.config()
StartConfigMoved(c) ==
    /\ CanStartMoved(c)
    /\ calls' = [calls EXCEPT ![c].kind = "config", ![c].pc = "cf_lock",
                              ![c].facade = "client2"]
    /\ UNCHANGED <<config, mutex, pending_mutex, pending_operations, life, dtor,
                   transport, stdlib, channel, logging>>

\* callback-based operations dispatched on client1, the move, and calls on
\* client2
NextMove ==
    \/ \E c \in CallIds :
        \/ Dispatch(c)
        \/ add_pending_operation(c)
        \/ make_request(c)
        \/ CallbackReturns(c)
        \/ CallbackThrows(c)
        \/ StartSyncMoved(c)
        \/ StartConfigMoved(c)
        \/ config_copy(c)
    \/ MoveConstruct

SpecMove == Init /\ [][NextMove]_vars

----------------------------------------------------------------------------
\* Callbacks that call back into the client

\* The callback of operation c, on its worker, makes one synchronous call d
\* on the same client: submit_score, set_api_key, config() or ping.  The
\* call runs on the worker, and the callback goes on when it has returned.
CallbackCalls(c) ==
    /\ ~Crashed
    /\ calls[c].pc = "cb"
    /\ \A d \in CallIds : calls[d].by # c
    /\ \E d \in CallIds :
           /\ CanStart(d)
           /\ \/ calls' = [calls EXCEPT ![d].kind = "sync", ![d].pc = "mr_lock",
                                        ![d].by = c]
              \/ calls' = [calls EXCEPT ![d].kind = "set_api_key",
                                        ![d].pc = "sk_lock",
                                        ![d].arg = Key("k1"), ![d].by = c]
              \/ calls' = [calls EXCEPT ![d].kind = "config", ![d].pc = "cf_lock",
                                        ![d].by = c]
              \/ calls' = [calls EXCEPT ![d].kind = "ping", ![d].pc = "pg_lock",
                                        ![d].by = c]
    /\ UNCHANGED <<config, mutex, pending_mutex, pending_operations, life, dtor,
                   transport, stdlib, channel, logging>>

\* callback-based operations whose callbacks call the client and return
NextCallback ==
    \E c \in CallIds :
        \/ Dispatch(c)
        \/ add_pending_operation(c)
        \/ make_request(c)
        \/ CallbackCalls(c)
        \/ set_api_key(c)
        \/ config_copy(c)
        \/ ping(c)
        \/ CallbackReturns(c)

\* a client that retries a request once
InitCallback ==
    /\ config = Config(1, 100, Key("k0"))
    /\ validate(config)
    /\ mutex = 0
    /\ pending_mutex = 0
    /\ pending_operations = <<>>
    /\ calls = [c \in CallIds |-> IdleCall]
    /\ life = "Ready"
    /\ dtor = [i |-> 0, outstanding |-> 0]
    /\ transport = FewOutcomes
    /\ stdlib = "keeps_pointer"
    /\ channel = "created"
    /\ logging = ConstructedLogging

SpecCallback == InitCallback /\ [][NextCallback]_vars

----------------------------------------------------------------------------
\* Logging calls from several threads.  Each thread makes its calls one
\* after the other: InitLogging(options), the construction of a client (with
\* a valid configuration), or ShutdownLogging().

\* the options the callers pass to InitLogging
LogOptions == {"kError", "kDebug"}

LogThread(t) == logging.threads[t]

\* the call of thread t returns
LogReturn(l, t) ==
    [l EXCEPT !.threads[t].pc = "idle",
              !.threads[t].last = [op |-> l.threads[t].op,
                                   initialized |-> l.initialized]]

\* InitLogging(options) is called
LgInitLogging(t) ==
    /\ LogThread(t).pc = "idle"
    /\ LogThread(t).left > 0
    /\ \E o \in LogOptions :
           logging' = [logging EXCEPT !.threads[t].pc = "call_once",
                                      !.threads[t].op = "InitLogging",
                                      !.threads[t].options = o,
                                      !.threads[t].left = @ - 1]
    /\ UNCHANGED <<config, mutex, pending_mutex, pending_operations, calls, life,
                   dtor, transport, stdlib, channel>>

\* AscndClient client(config): Impl::Impl reaches EnsureLoggingInitialized()
LgConstruct(t) ==
    /\ LogThread(t).pc = "idle"
    /\ LogThread(t).left > 0
    /\ logging' = [logging EXCEPT !.threads[t].pc = "call_once",
                                  !.threads[t].op = "construct",
                                  !.threads[t].options = DefaultLoggingOptions,
                                  !.threads[t].left = @ - 1]
    /\ UNCHANGED <<config, mutex, pending_mutex, pending_operations, calls, life,
                   dtor, transport, stdlib, channel>>

\* ShutdownLogging() is called
LgShutdownLogging(t) ==
    /\ LogThread(t).pc = "idle"
    /\ LogThread(t).left > 0
    /\ logging' = [logging EXCEPT !.threads[t].pc = "cas",
                                  !.threads[t].op = "ShutdownLogging",
                                  !.threads[t].left = @ - 1]
    /\ UNCHANGED <<config, mutex, pending_mutex, pending_operations, calls, life,
                   dtor, transport, stdlib, channel>>

\* std::call_once(g_logging_init_flag, ...): a thread waits while another is
\* running the callable; it runs the callable itself, or returns at once
\* (and with that InitLogging returns, or the constructor goes on to its end)
LgCallOnce(t) ==
    /\ LogThread(t).pc = "call_once"
    /\ logging.flag # "running"
    /\ logging' =
           IF OnceRuns(logging.flag)
           THEN [logging EXCEPT
                    !.flag = "running",
                    !.winner = IF @ = "none" THEN LogThread(t).options ELSE @,
                    !.threads[t].pc = "do_init"]
           ELSE LogReturn(logging, t)
    /\ UNCHANGED <<config, mutex, pending_mutex, pending_operations, calls, life,
                   dtor, transport, stdlib, channel>>

\* the callable: DoInitLogging(options)
LgDoInit(t) ==
    /\ LogThread(t).pc = "do_init"
    /\ logging' = [DoInitLogging(logging, LogThread(t).options) EXCEPT
                      !.threads[t].pc = "once_return"]
    /\ UNCHANGED <<config, mutex, pending_mutex, pending_operations, calls, life,
                   dtor, transport, stdlib, channel>>

\* the callable has returned: the flag is set and the call returns
LgOnceReturn(t) ==
    /\ LogThread(t).pc = "once_return"
    /\ logging' = LogReturn([logging EXCEPT !.flag = "done"], t)
    /\ UNCHANGED <<config, mutex, pending_mutex, pending_operations, calls, life,
                   dtor, transport, stdlib, channel>>

\* g_logging_initialized.compare_exchange_strong(expected = true, false)
LgCas(t) ==
    /\ LogThread(t).pc = "cas"
    /\ logging' =
           IF logging.initialized
           THEN [logging EXCEPT !.initialized = FALSE, !.threads[t].pc = "shutdown"]
           ELSE LogReturn(logging, t)
    /\ UNCHANGED <<config, mutex, pending_mutex, pending_operations, calls, life,
                   dtor, transport, stdlib, channel>>

\* google::ShutdownGoogleLogging()
LgShutdown(t) ==
    /\ LogThread(t).pc = "shutdown"
    /\ logging' = LogReturn([logging EXCEPT !.backend = "down",
                                            !.shutdowns = @ + 1], t)
    /\ UNCHANGED <<config, mutex, pending_mutex, pending_operations, calls, life,
                   dtor, transport, stdlib, channel>>

NextLogging ==
    \E t \in LogThreads :
        \/ LgInitLogging(t)
        \/ LgConstruct(t)
        \/ LgShutdownLogging(t)
        \/ LgCallOnce(t)
        \/ LgDoInit(t)
        \/ LgOnceReturn(t)
        \/ LgCas(t)
        \/ LgShutdown(t)

\* how many calls a thread makes
MaxLogCalls == 3

\* a process that has not touched logging, whose threads make the given
\* numbers of calls
InitLoggingWith(left) ==
    /\ config = Config(0, 100, Key("k0"))
    /\ mutex = 0
    /\ pending_mutex = 0
    /\ pending_operations = <<>>
    /\ calls = [c \in CallIds |-> IdleCall]
    /\ life = "Ready"
    /\ dtor = [i |-> 0, outstanding |-> 0]
    /\ transport = FewOutcomes
    /\ stdlib = "keeps_pointer"
    /\ channel = "created"
    /\ logging = [NoLogging EXCEPT
                     !.threads = [t \in LogThreads |->
                                     [IdleLogThread EXCEPT !.left = left[t]]]]

\* the calls come from any threads, in any interleaving
SpecLogging ==
    InitLoggingWith([t \in LogThreads |-> MaxLogCalls]) /\ [][NextLogging]_vars

\* the calls come one after the other, from one thread
SpecLoggingSequence ==
    /\ InitLoggingWith([t \in LogThreads |-> IF t = 1 THEN MaxLogCalls ELSE 0])
    /\ [][NextLogging]_vars

----------------------------------------------------------------------------
\* The HTTP client (src/unnamed/part_007, and the same code header-only in
\* src/include/ascnd/client.hpp): set_api_key and config()

HttpClientConfig(api_key) ==
    [base_url |-> "https://api.ascnd.gg", api_key |-> api_key,
     connection_timeout_ms |-> 5000, read_timeout_ms |-> 10000,
     write_timeout_ms |-> 10000, max_retries |-> 3, retry_delay_ms |-> 100,
     user_agent |-> "", verbose |-> FALSE]

\* Impl::init_client: the default headers of the new httplib::Client
init_client(cfg) ==
    [authorization |->
        IF cfg.api_key # NoKey THEN <<"Bearer", cfg.api_key>> ELSE <<>>,
     user_agent |->
        IF cfg.user_agent # "" THEN cfg.user_agent ELSE "ascnd-cpp-client/1.0.0"]

StartHttpSetApiKey(c) ==
    /\ CanStart(c)
    /\ \E k \in ApiKeys :
           calls' = [calls EXCEPT ![c].kind = "http_set_api_key",
                                  ![c].pc = "hk_lock", ![c].arg = k]
    /\ UNCHANGED <<config, mutex, pending_mutex, pending_operations, life, dtor,
                   transport, stdlib, channel, logging>>

\* std::lock_guard<std::mutex> lock(impl_->mutex);
HttpSkLock(c) ==
    /\ calls[c].pc = "hk_lock"
    /\ mutex = 0
    /\ mutex' = c
    /\ calls' = [calls EXCEPT ![c].pc = "hk_write"]
    /\ UNCHANGED <<config, pending_mutex, pending_operations, life, dtor,
                   transport, stdlib, channel, logging>>

\* impl_->config.api_key = api_key; the first half is written
HttpSkWrite(c) ==
    /\ calls[c].pc = "hk_write"
    /\ config' = [config EXCEPT !.api_key[1] = calls[c].arg[1]]
    /\ calls' = [calls EXCEPT ![c].pc = "hk_finish"]
    /\ UNCHANGED <<mutex, pending_mutex, pending_operations, life, dtor,
                   transport, stdlib, channel, logging>>

\* the second half is written; impl_->init_client(); the lock released
HttpSkFinish(c) ==
    /\ calls[c].pc = "hk_finish"
    /\ config' = [config EXCEPT !.api_key[2] = calls[c].arg[2]]
    /\ channel' = init_client(config')
    /\ mutex' = 0
    /\ calls' = [calls EXCEPT ![c].pc = "done"]
    /\ UNCHANGED <<pending_mutex, pending_operations, life, dtor, transport, stdlib,
                   logging>>

http_set_api_key(c) == HttpSkLock(c) \/ HttpSkWrite(c) \/ HttpSkFinish(c)

\* what config() of the HTTP client returns: a reference to Impl::config
LiveRef == [ref |-> "impl_->config"]

\* const ClientConfig& AscndClient::config() const noexcept
\* { return impl_->config; }: no lock, no copy
http_config(c) ==
    /\ CanStart(c)
    /\ calls' = [calls EXCEPT ![c].kind = "http_config", ![c].pc = "done",
                              ![c].snap = LiveRef]
    /\ UNCHANGED <<config, mutex, pending_mutex, pending_operations, life, dtor,
                   transport, stdlib, channel, logging>>

InitHttp ==
    /\ config = HttpClientConfig(Key("k0"))
    /\ mutex = 0
    /\ pending_mutex = 0
    /\ pending_operations = <<>>
    /\ calls = [c \in CallIds |-> IdleCall]
    /\ life = "Ready"
    /\ dtor = [i |-> 0, outstanding |-> 0]
    /\ transport = FewOutcomes
    /\ stdlib \in StdLibs
    /\ channel = init_client(HttpClientConfig(Key("k0")))
    /\ logging = NoLogging

\* threads sharing the HTTP client: set_api_key and config()
NextHttp ==
    \E c \in CallIds :
        \/ StartHttpSetApiKey(c)
        \/ http_set_api_key(c)
        \/ http_config(c)

SpecHttp == InitHttp /\ [][NextHttp]_vars

----------------------------------------------------------------------------
\* The HTTP client's make_request (src/unnamed/part_007:68-139).  Texts are
\* sequences of pieces; a response body is the sequence of its JSON tokens,
\* or of bare words where it is not JSON.

Chars(s) == [t |-> "chars", s |-> s]
Punct(s) == [t |-> "punct", s |-> s]
Str(s) == [t |-> "str", s |-> s]
Num(n) == [t |-> "num", n |-> n]
Lit(s) == [t |-> "lit", s |-> s]
Word(s) == [t |-> "word", s |-> s]

DigitChars == <<"0", "1", "2", "3", "4", "5", "6", "7", "8", "9">>

\* std::to_string of a non-negative int
RECURSIVE to_string(_)
to_string(n) ==
    IF n < 10 THEN <<Chars(DigitChars[n + 1])>>
    ELSE to_string(n \div 10) \o <<Chars(DigitChars[(n % 10) + 1])>>

\* a JSON object of members with scalar values, as the server writes it
RECURSIVE Members(_)
Members(ms) ==
    IF Len(ms) = 0 THEN <<>>
    ELSE <<Str(ms[1][1]), Punct(":"), ms[1][2]>>
             \o (IF Len(ms) > 1 THEN <<Punct(",")>> ELSE <<>>)
             \o Members(Tail(ms))

Object(ms) == <<Punct("{")>> \o Members(ms) \o <<Punct("}")>>

ParseError == [ok |-> FALSE, what |-> "parse_error"]

IsScalar(tok) == tok.t \in {"str", "num", "lit"}

\* the members between the braces, from token i on; a repeated name keeps
\* the later value
RECURSIVE ParseMembers(_, _, _)
ParseMembers(b, i, acc) ==
    IF i + 3 > Len(b) THEN ParseError
    ELSE IF ~(b[i].t = "str" /\ b[i + 1] = Punct(":") /\ IsScalar(b[i + 2]))
    THEN ParseError
    ELSE LET name == b[i].s
             more == [x \in DOMAIN acc \cup {name} |->
                         IF x = name THEN b[i + 2] ELSE acc[x]]
         IN  IF i + 3 = Len(b)
             THEN IF b[i + 3] = Punct("}")
                  THEN [ok |-> TRUE, type |-> "object", members |-> more]
                  ELSE ParseError
             ELSE IF b[i + 3] = Punct(",") THEN ParseMembers(b, i + 4, more)
             ELSE ParseError

\* json::parse(response.body)
json_parse(b) ==
    IF Len(b) = 0 THEN ParseError
    ELSE IF Len(b) = 1
    THEN IF IsScalar(b[1]) THEN [ok |-> TRUE, type |-> b[1].t, tok |-> b[1]]
         ELSE ParseError
    ELSE IF b = <<Punct("["), Punct("]")>> THEN [ok |-> TRUE, type |-> "array"]
    ELSE IF b = <<Punct("{"), Punct("}")>>
    THEN [ok |-> TRUE, type |-> "object", members |-> <<>>]
    ELSE IF b[1] = Punct("{") THEN ParseMembers(b, 2, <<>>)
    ELSE ParseError

\* j.contains(name): false on anything but an object
contains(j, name) == j.type = "object" /\ name \in DOMAIN j.members

\* error_json[name].get<std::string>(), for a member that is there
get_string(j, name) ==
    IF j.members[name].t = "str"
    THEN [ok |-> TRUE, text |-> <<Chars(j.members[name].s)>>]
    ELSE [ok |-> FALSE, what |-> "type_error"]

\* j.at(name).get_to(field) for a field of the given JSON type
get_to(j, name, type) ==
    IF j.type # "object" THEN [ok |-> FALSE, what |-> "type_error"]
    ELSE IF name \notin DOMAIN j.members THEN [ok |-> FALSE, what |-> "out_of_range"]
    ELSE IF j.members[name].t # type THEN [ok |-> FALSE, what |-> "type_error"]
    ELSE [ok |-> TRUE, tok |-> j.members[name]]

\* from_json(const json&, SubmitScoreResponse&)
from_json_SubmitScoreResponse(j) ==
    LET score_id == get_to(j, "score_id", "str")
        rank == get_to(j, "rank", "num")
        is_new_best == get_to(j, "is_new_best", "lit")
        was_deduplicated == get_to(j, "was_deduplicated", "lit")
    IN  IF ~score_id.ok THEN score_id
        ELSE IF ~rank.ok THEN rank
        ELSE IF ~is_new_best.ok THEN is_new_best
        ELSE IF is_new_best.tok.s \notin {"true", "false"}
        THEN [ok |-> FALSE, what |-> "type_error"]
        ELSE IF ~was_deduplicated.ok THEN was_deduplicated
        ELSE IF was_deduplicated.tok.s \notin {"true", "false"}
        THEN [ok |-> FALSE, what |-> "type_error"]
        ELSE [ok |-> TRUE,
              value |-> [score_id |-> score_id.tok.s, rank |-> rank.tok.n,
                         is_new_best |-> is_new_best.tok.s = "true",
                         was_deduplicated |-> was_deduplicated.tok.s = "true"]]

\* from_json(const json&, GetPlayerRankResponse&): total_entries, and the
\* rank where it is there and not null (the other optional fields likewise)
from_json_GetPlayerRankResponse(j) ==
    LET total_entries == get_to(j, "total_entries", "num")
    IN  IF ~total_entries.ok THEN total_entries
        ELSE IF contains(j, "rank") /\ j.members["rank"] # Lit("null")
        THEN IF j.members["rank"].t = "num"
             THEN [ok |-> TRUE, value |-> [total_entries |-> total_entries.tok.n,
                                          rank |-> <<j.members["rank"].n>>]]
             ELSE [ok |-> FALSE, what |-> "type_error"]
        ELSE [ok |-> TRUE, value |-> [total_entries |-> total_entries.tok.n,
                                     rank |-> <<>>]]

\* json_response.get<ResponseT>()
get_response(op, j) ==
    IF op = "submit_score" THEN from_json_SubmitScoreResponse(j)
    ELSE from_json_GetPlayerRankResponse(j)

\* the success range taken as the status 200 alone
StatusSuccess_only200(status) == status = 200

\* response.status >= 200 && response.status < 300
StatusSuccess(status) == status >= 200 /\ status < 300

\* the 2xx branch: parse and convert, a json::exception becomes an error
\* Result with the status
DecodeResponse(op, response) ==
    LET j == json_parse(response.body)
        r == IF j.ok THEN get_response(op, j) ELSE j
    IN  IF r.ok THEN ResultOk(r.value)
        ELSE ResultError(<<Chars("JSON parse error: "), Chars(r.what)>>,
                         response.status)

\* the message of an error response: parse the body; `message` if the
\* object has it, else `error`, else the body; anything thrown on the way
\* gives "HTTP <status>" for an empty body and the body otherwise
ErrorMessage(response) ==
    LET j == json_parse(response.body)
        thrown == IF Len(response.body) = 0
                  THEN <<Chars("HTTP ")>> \o to_string(response.status)
                  ELSE response.body
        field(name) == LET s == get_string(j, name)
                       IN  IF s.ok THEN s.text ELSE thrown
    IN  IF ~j.ok THEN thrown
        ELSE IF contains(j, "message") THEN field("message")
        ELSE IF contains(j, "error") THEN field("error")
        ELSE response.body

\* the outcome of one attempt: httplib::Result holds an error, or a response
HttpFailure(name, code) ==
    [error |-> [name |-> name, code |-> code], status |-> 0, body |-> <<>>]
HttpResponse(status, body) ==
    [error |-> [name |-> "Success", code |-> 0], status |-> status, body |-> body]

\* if (result): a response was received
HasResponse(result) == result.error.name = "Success"

HttpFailures ==
    {HttpFailure("Connection", 2), HttpFailure("Read", 4),
     HttpFailure("SSLServerVerification", 10)}

Bodies ==
    {<<>>,
     <<Word("Service"), Word("Unavailable")>>,
     Object(<<<<"message", Str("m1")>>>>),
     Object(<<<<"message", Str("m1")>>, <<"error", Str("e1")>>>>),
     Object(<<<<"error", Str("e1")>>>>),
     Object(<<<<"message", Num(42)>>, <<"error", Str("e1")>>>>),
     Object(<<<<"code", Num(7)>>>>),
     Object(<<>>),
     <<Str("oops")>>,
     <<Punct("["), Punct("]")>>,
     <<Punct("{"), Str("message"), Punct(":")>>,
     Object(<<<<"total_entries", Num(9)>>, <<"rank", Num(3)>>>>),
     Object(<<<<"total_entries", Num(9)>>, <<"rank", Lit("null")>>>>),
     Object(<<<<"total_entries", Str("nine")>>>>),
     Object(<<<<"score_id", Str("s1")>>, <<"rank", Num(3)>>,
              <<"is_new_best", Lit("true")>>, <<"was_deduplicated", Lit("false")>>>>),
     Object(<<<<"score_id", Str("s1")>>, <<"rank", Num(3)>>>>)}

HttpStatuses == {200, 204, 400, 429, 503}

HttpOutcomes ==
    HttpFailures \cup {HttpResponse(st, b) : st \in HttpStatuses, b \in Bodies}

\* the outcomes used where several workers run
FewHttpOutcomes ==
    {HttpFailure("Connection", 2),
     HttpResponse(200, Object(<<<<"total_entries", Num(9)>>>>))}

\* submit_score posts, get_player_rank gets
HttpStart(c) ==
    /\ CanStart(c)
    /\ \A b \in CallIds \ {c} : calls[b].pc = "idle"
    /\ \E op \in {"submit_score", "get_player_rank"} :
           calls' = [calls EXCEPT ![c].kind = "http_sync", ![c].pc = "hm_lock",
                                  ![c].arg = op]
    /\ UNCHANGED <<config, mutex, pending_mutex, pending_operations, life, dtor,
                   transport, stdlib, channel, logging>>

\* impl_->make_request<ResponseT>(...): std::lock_guard<std::mutex>
\* lock(mutex); int retries = 0;
HttpMrLock(c) ==
    /\ ~Crashed
    /\ calls[c].pc = "hm_lock"
    /\ \E impl \in ImplDeref :
           IF impl = "fault"
           THEN /\ calls' = [calls EXCEPT ![c].pc = "crashed"]
                /\ UNCHANGED mutex
           ELSE /\ mutex = 0
                /\ mutex' = c
                /\ calls' = [calls EXCEPT ![c].pc = "hm_loop", ![c].retries = 0]
    /\ UNCHANGED <<config, pending_mutex, pending_operations, life, dtor,
                   transport, stdlib, channel, logging>>

\* while (retries <= config.max_retries): the request is sent through
\* http_client, or the loop is left
HttpMrLoop(c) ==
    /\ ~Crashed
    /\ calls[c].pc = "hm_loop"
    /\ IF LoopContinues(calls[c].retries)
       THEN \E impl \in ImplDeref :
                calls' = [calls EXCEPT
                    ![c].pc = IF impl = "fault" THEN "crashed" ELSE "hm_send"]
       ELSE calls' = [calls EXCEPT ![c].pc = "hm_after"]
    /\ UNCHANGED <<config, mutex, pending_mutex, pending_operations, life, dtor,
                   transport, stdlib, channel, logging>>

\* Post or Get returns; a response leaves the loop, an error sleeps unless
\* this was the last permitted attempt, then ++retries
HttpMrSend(c) ==
    /\ ~Crashed
    /\ calls[c].pc = "hm_send"
    /\ \E o \in transport :
        LET me == calls[c]
            seen == [me EXCEPT !.status = o, !.log = Append(me.log, o)]
        IN  IF HasResponse(o)
            THEN calls' = [calls EXCEPT ![c] = [seen EXCEPT !.pc = "hm_after"]]
            ELSE IF SleepsBeforeRetry(me.retries)
            THEN \E delay \in BackoffDelays(config.retry_delay_ms, me.retries) :
                     calls' = [calls EXCEPT ![c] =
                         [seen EXCEPT !.pc = "hm_sleep",
                                      !.sleeps = Append(me.sleeps,
                                          [after |-> me.retries, delay |-> delay])]]
            ELSE calls' = [calls EXCEPT ![c] =
                     [seen EXCEPT !.pc = "hm_loop", !.retries = me.retries + 1]]
    /\ UNCHANGED <<config, mutex, pending_mutex, pending_operations, life, dtor,
                   transport, stdlib, channel, logging>>

\* sleep_for returns; ++retries
HttpMrSleep(c) ==
    /\ ~Crashed
    /\ calls[c].pc = "hm_sleep"
    /\ calls' = [calls EXCEPT ![c].pc = "hm_loop", ![c].retries = calls[c].retries + 1]
    /\ UNCHANGED <<config, mutex, pending_mutex, pending_operations, life, dtor,
                   transport, stdlib, channel, logging>>

\* after the loop: the Result of the last attempt
HttpResultOf(op, result) ==
    IF ~HasResponse(result)
    THEN ResultError(<<Chars("HTTP request failed: "), Chars(result.error.name)>>,
                     result.error.code)
    ELSE IF StatusSuccess(result.status) THEN DecodeResponse(op, result)
    ELSE ResultError(ErrorMessage(result), result.status)

HttpMrReturn(c) ==
    /\ ~Crashed
    /\ calls[c].pc = "hm_after"
    /\ calls' = [calls EXCEPT
           ![c].result = HttpResultOf(calls[c].arg, calls[c].status),
           ![c].pc = IF calls[c].kind = "http_callback" THEN "cb" ELSE "done"]
    /\ mutex' = 0
    /\ UNCHANGED <<config, pending_mutex, pending_operations, life, dtor,
                   transport, stdlib, channel, logging>>

http_make_request(c) ==
    \/ HttpMrLock(c)
    \/ HttpMrLoop(c)
    \/ HttpMrSend(c)
    \/ HttpMrSleep(c)
    \/ HttpMrReturn(c)

HttpRetryConfigs ==
    {[HttpClientConfig(Key("k0")) EXCEPT !.max_retries = n, !.retry_delay_ms = d] :
        n \in 0..MaxRetries, d \in {0, 100}}

InitHttpRequest ==
    /\ config \in HttpRetryConfigs
    /\ mutex = 0
    /\ pending_mutex = 0
    /\ pending_operations = <<>>
    /\ calls = [c \in CallIds |-> IdleCall]
    /\ life = "Ready"
    /\ dtor = [i |-> 0, outstanding |-> 0]
    /\ transport = HttpOutcomes
    /\ stdlib = "keeps_pointer"
    /\ channel = init_client(config)
    /\ logging = NoLogging

NextHttpRequest ==
    \E c \in CallIds :
        \/ HttpStart(c)
        \/ http_make_request(c)

\* one synchronous request of the HTTP client, any outcome per attempt
SpecHttpRequest == InitHttpRequest /\ [][NextHttpRequest]_vars

----------------------------------------------------------------------------
\* The HTTP client's callback-based operations and its destructor
\* (src/unnamed/part_007:148, 221-249)

\* get_player_rank_async(request, callback): std::thread(...).detach(); the
\* thread is not recorded anywhere
HttpDispatch(c) ==
    /\ CanStart(c)
    /\ \A a, b \in CallIds \ {c} :
           a # b => calls[a].pc = "idle" \/ calls[b].pc = "idle"
    /\ calls' = [calls EXCEPT ![c].kind = "http_callback", ![c].pc = "hm_lock",
                              ![c].arg = "get_player_rank", ![c].disp = "detached"]
    /\ UNCHANGED <<config, mutex, pending_mutex, pending_operations, life, dtor,
                   transport, stdlib, channel, logging>>

\* callback(std::move(result)); on the worker
HttpCallback(c) ==
    /\ ~Crashed
    /\ calls[c].kind = "http_callback"
    /\ calls[c].pc = "cb"
    /\ calls' = [calls EXCEPT ![c].pc = "done", ![c].cb = "invoked"]
    /\ UNCHANGED <<config, mutex, pending_mutex, pending_operations, life, dtor,
                   transport, stdlib, channel, logging>>

\* AscndClient::~AscndClient() = default: impl_ is deleted, and with it the
\* lock, the configuration and http_client; nothing is waited for
HttpDtor ==
    /\ life = "Ready"
    /\ life' = "Closed"
    /\ channel' = "released"
    /\ UNCHANGED <<config, mutex, pending_mutex, pending_operations, calls, dtor,
                   transport, stdlib,
                   logging>>

InitHttpTeardown ==
    /\ config = [HttpClientConfig(Key("k0")) EXCEPT !.max_retries = MaxRetriesShared]
    /\ mutex = 0
    /\ pending_mutex = 0
    /\ pending_operations = <<>>
    /\ calls = [c \in CallIds |-> IdleCall]
    /\ life = "Ready"
    /\ dtor = [i |-> 0, outstanding |-> 0]
    /\ transport = FewHttpOutcomes
    /\ stdlib \in StdLibs
    /\ channel = init_client(config)
    /\ logging = NoLogging

NextHttpTeardown ==
    \/ \E c \in CallIds :
           \/ HttpDispatch(c)
           \/ http_make_request(c)
           \/ HttpCallback(c)
    \/ HttpDtor

\* callback-based operations of the HTTP client and its destruction
SpecHttpTeardown == InitHttpTeardown /\ [][NextHttpTeardown]_vars

----------------------------------------------------------------------------
\* Requests in their full form and through the convenience overloads

\* the default argument of get_leaderboard(leaderboard_id, limit)
LimitDefault == 10

\* submit_score(leaderboard_id, player_id, score)
submit_score_request(leaderboard_id, player_id, score) ==
    [SubmitScoreRequest EXCEPT !.leaderboard_id = leaderboard_id,
                               !.player_id = player_id, !.score = score]

\* get_leaderboard(leaderboard_id, limit) leaving the limit unset
get_leaderboard_request_nolimit(leaderboard_id, limit) ==
    [GetLeaderboardRequest EXCEPT !.leaderboard_id = leaderboard_id]

\* get_leaderboard(leaderboard_id, limit)
get_leaderboard_request(leaderboard_id, limit) ==
    [GetLeaderboardRequest EXCEPT !.leaderboard_id = leaderboard_id,
                                  !.limit = limit]

\* get_player_rank(leaderboard_id, player_id)
get_player_rank_request(leaderboard_id, player_id) ==
    [GetPlayerRankRequest EXCEPT !.leaderboard_id = leaderboard_id,
                                 !.player_id = player_id]

\* requests a caller fills in itself
FullRequests ==
    {[SubmitScoreRequest EXCEPT
          !.leaderboard_id = "lb1", !.player_id = "pl1", !.score = sc,
          !.idempotency_key = ik[1], !.metadata = ik[2]] :
        sc \in {0, 100}, ik \in {<<"", "">>, <<"i1", "md">>}}
    \cup {[GetLeaderboardRequest EXCEPT
              !.leaderboard_id = "lb1", !.limit = l,
              !.offset = x[1], !.period = x[2], !.view_slug = x[3]] :
            l \in {0, LimitDefault, 25},
            x \in {<<0, "", "">>, <<5, "", "">>, <<0, "weekly", "">>,
                   <<0, "", "v1">>}}
    \cup {[GetPlayerRankRequest EXCEPT
              !.leaderboard_id = "lb1", !.player_id = "pl1",
              !.period = x[1], !.view_slug = x[2]] :
            x \in {<<"", "">>, <<"weekly", "">>, <<"", "v1">>}}

\* the program runs at most two requests at a time
CanRequest(c) ==
    /\ CanStart(c)
    /\ \A a, b \in CallIds \ {c} :
           a # b => calls[a].pc = "idle" \/ calls[b].pc = "idle"

\* submit_score(request), get_leaderboard(request), get_player_rank(request)
StartFull(c) ==
    /\ CanRequest(c)
    /\ \E request \in FullRequests :
           calls' = [calls EXCEPT ![c].kind = "sync", ![c].pc = "mr_lock",
                                  ![c].request = request]
    /\ UNCHANGED <<config, mutex, pending_mutex, pending_operations, life, dtor,
                   transport, stdlib, channel, logging>>

\* a convenience overload: it fills a request from its arguments and calls
\* the full form with it
StartConvenience(c) ==
    /\ CanRequest(c)
    /\ \/ \E score \in {0, 100} :
              calls' = [calls EXCEPT
                  ![c].kind = "convenience", ![c].pc = "mr_lock",
                  ![c].arg = [form |-> "submit_score", leaderboard_id |-> "lb1",
                              player_id |-> "pl1", score |-> score],
                  ![c].request = submit_score_request("lb1", "pl1", score)]
       \/ \E given \in {{"leaderboard_id"}, {"leaderboard_id", "limit"}} :
          \E limit \in (IF "limit" \in given THEN {LimitDefault, 25}
                                             ELSE {LimitDefault}) :
              calls' = [calls EXCEPT
                  ![c].kind = "convenience", ![c].pc = "mr_lock",
                  ![c].arg = [form |-> "get_leaderboard", leaderboard_id |-> "lb1",
                              given |-> given, limit |-> limit],
                  ![c].request = get_leaderboard_request("lb1", limit)]
       \/ calls' = [calls EXCEPT
                  ![c].kind = "convenience", ![c].pc = "mr_lock",
                  ![c].arg = [form |-> "get_player_rank", leaderboard_id |-> "lb1",
                              player_id |-> "pl1"],
                  ![c].request = get_player_rank_request("lb1", "pl1")]
    /\ UNCHANGED <<config, mutex, pending_mutex, pending_operations, life, dtor,
                   transport, stdlib, channel, logging>>

NextRequest ==
    \E c \in CallIds :
        \/ StartFull(c)
        \/ StartConvenience(c)
        \/ make_request(c)

----------------------------------------------------------------------------
\* Result<T> on its own: a Result is made by ok or by error from any payload,
\* message and code, then read through its observers and through value_or
\* with any default

Defaults == Payloads \cup {"d0"}
ErrorMessages == Messages \cup {""}

\* the program holds at most two Results at a time
CanMake(c) ==
    /\ CanStart(c)
    /\ \A a, b \in CallIds \ {c} :
           a # b => calls[a].pc = "idle" \/ calls[b].pc = "idle"
    /\ \A a \in CallIds : calls[a].pc \in {"idle", "done"}

\* Result<T>::ok(v)
MakeOk(c) ==
    /\ CanMake(c)
    /\ \E v \in Payloads :
           calls' = [calls EXCEPT ![c].kind = "ok", ![c].pc = "made",
                                  ![c].response = v, ![c].result = ResultOk(v)]
    /\ UNCHANGED <<config, mutex, pending_mutex, pending_operations, life, dtor,
                   transport, stdlib, channel, logging>>

\* Result<T>::error(m, c), and Result<T>::error(m)
MakeError(c) ==
    /\ CanMake(c)
    /\ \/ \E m \in ErrorMessages, code \in StatusCodes :
              calls' = [calls EXCEPT ![c].kind = "error", ![c].pc = "made",
                                     ![c].status = Outcome(code, m, NoPayload),
                                     ![c].result = ResultError(m, code)]
       \/ \E m \in ErrorMessages :
              calls' = [calls EXCEPT ![c].kind = "error_default", ![c].pc = "made",
                                     ![c].status = Outcome(0, m, NoPayload),
                                     ![c].result = ResultErrorDefault(m)]
    /\ UNCHANGED <<config, mutex, pending_mutex, pending_operations, life, dtor,
                   transport, stdlib, channel, logging>>

\* the caller reads the Result: is_ok, is_error, bool, error, error_code, and
\* value() when the Result is a success
Observe(c) ==
    /\ calls[c].pc = "made"
    /\ LET r == calls[c].result
       IN  \E v \in (IF is_ok(r) THEN value(r) ELSE {NoPayload}) :
               calls' = [calls EXCEPT ![c].pc = "observed",
                            ![c].snap = [is_ok |-> is_ok(r), is_error |-> is_error(r),
                                         bool |-> to_bool(r), value |-> v,
                                         error |-> error(r),
                                         error_code |-> error_code(r)]]
    /\ UNCHANGED <<config, mutex, pending_mutex, pending_operations, life, dtor,
                   transport, stdlib, channel, logging>>

\* result.value_or(d)
ValueOr(c) ==
    /\ calls[c].pc = "observed"
    /\ \E d \in Defaults :
           calls' = [calls EXCEPT ![c].pc = "done", ![c].arg = d,
                                  ![c].response = value_or(calls[c].result, d)]
    /\ UNCHANGED <<config, mutex, pending_mutex, pending_operations, life, dtor,
                   transport, stdlib, channel, logging>>

NextResult ==
    \E c \in CallIds :
        \/ MakeOk(c)
        \/ MakeError(c)
        \/ Observe(c)
        \/ ValueOr(c)

InitResult ==
    /\ config \in SharedConfigs
    /\ mutex = 0
    /\ pending_mutex = 0
    /\ pending_operations = <<>>
    /\ calls = [c \in CallIds |-> IdleCall]
    /\ life = "Ready"
    /\ dtor = [i |-> 0, outstanding |-> 0]
    /\ transport = FewOutcomes
    /\ stdlib = "keeps_pointer"
    /\ channel = "created"
    /\ logging = ConstructedLogging

SpecResult == InitResult /\ [][NextResult]_vars

\* one client, its requests made in the full form and through the overloads
SpecRequest == InitResult /\ [][NextRequest]_vars

----------------------------------------------------------------------------
\* Properties of the retry engine

\* the retryable class as the specification lists it: unavailable,
\* deadline exceeded, resource exhausted, aborted
SpecRetryable == {14, 4, 8, 10}

\* make_request has returned its Result
Returned(c) == calls[c].result # NoResult

\* the thread is inside the attempt loop
InLoop(c) == calls[c].pc \in {"mr_loop", "mr_rpc", "mr_sleep"}

AllRetryableFailures(log) == \A i \in 1..Len(log) : log[i].code \in SpecRetryable

Last(log) == log[Len(log)]

\* C1: when every attempt fails with a retryable status, make_request makes
\* exactly max_retries + 1 attempts and returns an error Result carrying the
\* code and the message of the last attempt's failure.
C1_ExhaustedBudget ==
    \A c \in CallIds :
        (Returned(c) /\ AllRetryableFailures(calls[c].log)) =>
            /\ Len(calls[c].log) = config.max_retries + 1
            /\ calls[c].result =
                   ResultError(Last(calls[c].log).msg, Last(calls[c].log).code)

C1_Witness ==
    \E c \in CallIds :
        /\ Returned(c)
        /\ AllRetryableFailures(calls[c].log)
        /\ Len(calls[c].log) = 3
        /\ calls[c].log[1].code # calls[c].log[3].code
        /\ calls[c].log[2].msg # calls[c].log[3].msg

\* C2: with max_retries >= 1, when the attempts fail retryably and then one
\* succeeds, that attempt is the last one made (no attempt follows it), the
\* loop did not give up before it while budget remained, and the Result is ok
\* and carries that attempt's payload.
C2_SuccessAfterRetries ==
    \A c \in CallIds :
        config.max_retries >= 1 =>
            /\ \A i \in 1..Len(calls[c].log) :
                   calls[c].log[i].code = 0 =>
                       /\ i = Len(calls[c].log)
                       /\ ~InLoop(c)
                       /\ calls[c].pc # "mr_fail"
                       /\ calls[c].result = ResultOk(calls[c].log[i].payload)
            /\ (Returned(c) /\ AllRetryableFailures(calls[c].log)) =>
                   Len(calls[c].log) > config.max_retries

C2_Witness ==
    \E c \in CallIds :
        /\ Returned(c)
        /\ Len(calls[c].log) = 3
        /\ calls[c].log[1].code \in SpecRetryable
        /\ calls[c].log[2].code \in SpecRetryable
        /\ calls[c].log[3].code = 0
        /\ calls[c].result.success
        /\ calls[c].result.value = "p2"

\* C3: the loop stops at the first non-retryable failure whatever budget
\* remains: it is the last attempt, no backoff sleep follows it, and the
\* error Result carries its code and message.
C3_FatalStopsLoop ==
    \A c \in CallIds :
        \A j \in 1..Len(calls[c].log) :
            (calls[c].log[j].code # 0 /\ calls[c].log[j].code \notin SpecRetryable) =>
                /\ j = Len(calls[c].log)
                /\ ~InLoop(c)
                /\ \A s \in 1..Len(calls[c].sleeps) : calls[c].sleeps[s].after < j - 1
                /\ Returned(c) =>
                       calls[c].result =
                           ResultError(calls[c].log[j].msg, calls[c].log[j].code)

C3_Witness ==
    \E c \in CallIds :
        /\ Returned(c)
        /\ config.max_retries = 2
        /\ Len(calls[c].log) = 1
        /\ calls[c].log[1].code = 5
        /\ calls[c].result.error_code = 5

\* C7: the backoff slept after attempt i is retry_delay_ms * 2^i (the delay is
\* an int, so the product has to fit one).
C7_BackoffDoubles ==
    \A c \in CallIds :
        \A s \in 1..Len(calls[c].sleeps) :
            LET i == calls[c].sleeps[s].after
            IN  /\ config.retry_delay_ms <= Int32Max \div (2 ^ i)
                /\ calls[c].sleeps[s].delay = config.retry_delay_ms * (2 ^ i)

\* the attempts (numbered from 0) that a sleep has to follow: those that
\* failed retryably while another attempt was permitted
SleepDue(c) ==
    {i \in 0..(Len(calls[c].log) - 1) :
        calls[c].log[i + 1].code \in SpecRetryable /\ i < config.max_retries}

\* C8: a backoff sleep happens exactly after an attempt that failed with a
\* retryable status while another attempt was permitted, once each: none
\* after a success, a non-retryable failure or the final permitted attempt.
C8_SleepExactlyWhenRetrying ==
    \A c \in CallIds :
        /\ {calls[c].sleeps[s].after : s \in 1..Len(calls[c].sleeps)} = SleepDue(c)
        /\ Len(calls[c].sleeps) = Cardinality(SleepDue(c))

C8_Witness ==
    \E c \in CallIds :
        /\ Returned(c)
        /\ config.max_retries = 2
        /\ Len(calls[c].log) = 3
        /\ AllRetryableFailures(calls[c].log)
        /\ Len(calls[c].sleeps) = 2

\* C9: the retry loop terminates when every attempt returns, and never makes
\* more than max_retries + 1 attempts.
C9_TerminatesWithinBudget ==
    /\ [](\A c \in CallIds : Len(calls[c].log) <= config.max_retries + 1)
    /\ <>(\A c \in CallIds : calls[c].kind # "none" => Returned(c))

C9_Witness ==
    \E c \in CallIds :
        /\ calls[c].pc = "done"
        /\ Len(calls[c].log) = config.max_retries + 1
        /\ config.max_retries = 2

\* C10: is_retryable_error answers retryable for UNAVAILABLE,
\* DEADLINE_EXCEEDED, RESOURCE_EXHAUSTED and ABORTED and fatal for every other
\* status code, on every code and on every failure the loop classifies.
C10_Classifier ==
    /\ \A code \in StatusCodes : is_retryable_error(code) <=> code \in SpecRetryable
    /\ ~is_retryable_error(3) /\ ~is_retryable_error(5) /\ ~is_retryable_error(16)
    /\ \A c \in CallIds :
           \A i \in 1..Len(calls[c].log) :
               calls[c].log[i].code # 0 =>
                   (calls[c].log[i].retryable <=> calls[c].log[i].code \in SpecRetryable)

C10_Witness ==
    \E c \in CallIds :
        /\ Len(calls[c].log) = 2
        /\ calls[c].log[1].code = 10
        /\ calls[c].log[1].retryable
        /\ calls[c].log[2].code = 16
        /\ ~calls[c].log[2].retryable
        /\ Returned(c)

----------------------------------------------------------------------------
\* Properties of the shared client and of its teardown

\* the callback of operation c has been invoked (it returned or it threw)
Invoked(c) == calls[c].cb \in {"returned", "threw"}

\* C4: the destructor of a client with outstanding callback-based operations
\* does not return before the callback of every one of them has been
\* invoked, whether the callbacks return or throw.
C4_TeardownWaitsForCallbacks ==
    life = "Closed" => \A c \in CallIds : calls[c].kind = "callback" => Invoked(c)

C4_Witness ==
    /\ life = "Closed"
    /\ dtor.outstanding = 2
    /\ \E c, d \in CallIds : calls[c].cb = "threw" /\ calls[d].cb = "returned"

\* the thread is between taking the client lock and releasing it
InCritical(c) ==
    calls[c].pc \in {"mr_loop", "mr_rpc", "mr_sleep", "mr_fail", "sk_write",
                     "sk_finish", "cf_copy", "cf_finish", "pg_wait"}

\* C5: calls on one client are serialized: while a request is between its
\* first attempt and its return, backoff sleeps included, no other request,
\* ping, set_api_key or config() is inside its critical section.
C5_Serialized ==
    \A a, b \in CallIds : (InCritical(a) /\ InCritical(b)) => a = b

C5_Witness ==
    \E a, b, c \in CallIds :
        /\ calls[a].pc = "mr_sleep"
        /\ calls[b].pc = "mr_lock"
        /\ calls[c].pc = "sk_lock"

InitialKey == Key("k0")

\* the keys that stand after a completed set_api_key, or initially
CompletedKeys ==
    {InitialKey} \cup
        {calls[d].arg : d \in {e \in CallIds : calls[e].kind = "set_api_key"
                                               /\ calls[e].pc = "done"}}

\* C6: every value config() returns is the configuration as it stood after
\* one completed set_api_key, or the initial one: never a partly written key
\* nor a mix of fields.
C6_ConfigSnapshotWhole ==
    \A c \in CallIds :
        (calls[c].kind = "config" /\ calls[c].pc = "done") =>
            \E k \in CompletedKeys : calls[c].snap = [config EXCEPT !.api_key = k]

C6_Witness ==
    \E c, d, e \in CallIds :
        /\ calls[c].kind = "config" /\ calls[c].pc = "done"
        /\ calls[c].snap.api_key = Key("k1")
        /\ calls[d].kind = "set_api_key" /\ calls[d].pc = "done"
        /\ calls[e].kind = "set_api_key" /\ calls[e].pc = "sk_finish"
        /\ config.api_key = <<"k2", "k1">>

\* C11: an exception a callback throws is caught inside its worker: the
\* worker runs to its end with the exception logged, not stored in the
\* tracked future (so nothing reaches the destructor that waits on it), the
\* thrower holds no lock of the client, and the destructor still returns
\* only when every other operation's callback has been invoked.
C11_CallbackExceptionContained ==
    \A c \in CallIds :
        calls[c].cb = "threw" =>
            /\ calls[c].pc = "done"
            /\ calls[c].exception = "logged"
            /\ Returned(c)
            /\ mutex # c /\ pending_mutex # c
            /\ life = "Closed" =>
                   \A d \in CallIds \ {c} : calls[d].kind = "callback" => Invoked(d)

C11_Witness ==
    \E c, d \in CallIds :
        /\ calls[c].cb = "threw"
        /\ calls[d].cb = "returned"
        /\ calls[d].result.success
        /\ dtor.outstanding = 2
        /\ life = "Closed"
        /\ stdlib = "keeps_pointer"

\* C12: the callback of every callback-based operation dispatched is
\* eventually invoked, once, by the worker, and only after the request has
\* returned its Result (all attempts of its retry sequence made).
C12_CallbackEventuallyInvoked ==
    /\ [](\A c \in CallIds :
             Invoked(c) => calls[c].kind = "callback" /\ Returned(c)
                               /\ ~InLoop(c) /\ calls[c].pc = "done")
    /\ \A c \in CallIds : [](calls[c].kind = "callback" => <>Invoked(c))

\* C13: a request never ends in anything but a returned Result: it made at
\* least one attempt, an ok Result exactly when its final attempt succeeded,
\* and otherwise an error Result whose error_code is the status code of the
\* final attempt, which is not 0.
C13_FailureReturnedAsError ==
    \A c \in CallIds :
        /\ calls[c].pc # "crashed" /\ calls[c].exception = "none"
        /\ Returned(c) =>
               /\ Len(calls[c].log) >= 1
               /\ calls[c].result.success <=> Last(calls[c].log).code = 0
               /\ ~calls[c].result.success =>
                      /\ calls[c].result.error_code # 0
                      /\ calls[c].result.error_code = Last(calls[c].log).code

C13_Witness ==
    \E c \in CallIds :
        /\ Returned(c)
        /\ calls[c].pc = "done"
        /\ Len(calls[c].log) = 2
        /\ calls[c].log[1].code = 14
        /\ calls[c].log[2].code = 4
        /\ config.max_retries = 1
        /\ calls[c].result.error_code = 4

\* the configuration invariant as the specification states it: endpoint
\* non-empty, both timeouts strictly positive, retry count and delay
\* non-negative
SpecValid(cfg) ==
    ~(\/ cfg.server_address = ""
      \/ cfg.connection_timeout_ms <= 0
      \/ cfg.request_timeout_ms <= 0
      \/ cfg.max_retries < 0
      \/ cfg.retry_delay_ms < 0)

\* C14: a constructor given an invalid configuration throws before the
\* channel is created and leaves no client; a client that exists (Ready or
\* later) has a valid configuration and had its channel created.
C14_InvalidConfigNeverReady ==
    /\ life \in {"Ready", "Closing", "Closed"} =>
           SpecValid(config) /\ channel \in {"created", "released"}
    /\ (life # "Constructing" /\ ~SpecValid(config)) =>
           life = "Failed" /\ channel = "none"
    /\ life = "Failed" => channel = "none"

C14_Witness ==
    /\ life = "Failed"
    /\ channel = "none"
    /\ config.server_address = ""
    /\ config.api_key = Key("k0")
    /\ config.max_retries = 3

\* C15: validate() throws exactly when server_address is empty, or a timeout
\* is <= 0, or max_retries or retry_delay_ms is < 0: a configuration with any
\* of these is rejected, and one with none of them is accepted, also with
\* max_retries 0, retry_delay_ms 0, an empty api_key or an empty user_agent.
C15_ValidateRejectsExactly ==
    /\ \A cfg \in CandidateConfigs :
           validate(cfg) <=>
               ~(\/ cfg.server_address = ""
                 \/ cfg.connection_timeout_ms <= 0
                 \/ cfg.request_timeout_ms <= 0
                 \/ cfg.max_retries < 0
                 \/ cfg.retry_delay_ms < 0)
    /\ life # "Constructing" =>
           (life = "Failed" <=>
               \/ config.server_address = ""
               \/ config.connection_timeout_ms <= 0
               \/ config.request_timeout_ms <= 0
               \/ config.max_retries < 0
               \/ config.retry_delay_ms < 0)

C15_Witness ==
    /\ life = "Ready"
    /\ config.max_retries = 0
    /\ config.retry_delay_ms = 0
    /\ config.api_key = NoKey
    /\ config.user_agent = ""
    /\ config.connection_timeout_ms = 1
    /\ config.request_timeout_ms = 1

\* the authorization metadata that goes with key k: 'Bearer k', or no entry
\* for the empty key
Credential(k) == IF k = <<"", "">> THEN <<>> ELSE <<"Bearer", k>>

\* C16: when set_api_key(k) returns the stored key is k; the stored key
\* changes only inside a set_api_key that holds the lock; every attempt in
\* flight carries the credential of the key stored now (so of the last
\* set_api_key that returned, never of an earlier one); and config() returns
\* the key stored when it returns.
C16_CredentialFollowsSetApiKey ==
    /\ [](\A c \in CallIds :
             calls[c].pc = "mr_rpc" =>
                 /\ calls[c].ctx.authorization = Credential(config.api_key)
                 /\ config.api_key \in CompletedKeys)
    /\ [][/\ \A c \in CallIds :
               (calls[c].pc = "sk_finish" /\ calls'[c].pc = "done") =>
                   config'.api_key = calls[c].arg
          /\ config'.api_key # config.api_key =>
                 \E c \in CallIds : /\ calls[c].kind = "set_api_key"
                                     /\ calls[c].pc \in {"sk_write", "sk_finish"}
                                     /\ mutex = c
          /\ \A c \in CallIds :
               (calls[c].pc = "cf_finish" /\ calls'[c].pc = "done") =>
                   calls'[c].snap.api_key = config.api_key]_vars

C16_Witness ==
    \E a, b, c \in CallIds :
        /\ calls[a].kind = "sync" /\ calls[a].pc = "done"
        /\ calls[a].log[1].ctx.authorization = <<"Bearer", Key("k0")>>
        /\ calls[b].kind = "set_api_key" /\ calls[b].pc = "done"
        /\ calls[b].arg = NoKey
        /\ calls[c].pc = "mr_rpc"
        /\ calls[c].ctx.authorization = <<>>

\* C17: after construction every field of the configuration but api_key
\* stays as constructed, and the configuration changes only in a step of
\* set_api_key: requests, ping and config() leave all of it unchanged.
C17_OnlyApiKeyChanges ==
    /\ []([config EXCEPT !.api_key = InitialKey] \in SharedConfigs)
    /\ [][config' # config =>
              /\ \E c \in CallIds : /\ calls[c].kind = "set_api_key"
                                     /\ calls'[c].pc # calls[c].pc
              /\ \A f \in (DOMAIN config) \ {"api_key"} : config'[f] = config[f]]_vars

C17_Witness ==
    \E a, b, c \in CallIds :
        /\ calls[a].kind = "set_api_key" /\ calls[a].pc = "done"
        /\ calls[b].kind = "sync" /\ calls[b].pc = "done" /\ Len(calls[b].log) = 2
        /\ calls[c].kind = "ping" /\ calls[c].pc = "done"
        /\ config.api_key = Key("k2")
        /\ config.max_retries = 1 /\ ~config.use_ssl /\ ~config.verbose

\* C18: what a caller got from config() is a snapshot: once config() has
\* returned, no step of the client changes the value the caller holds, in
\* the gRPC client and in the HTTP client.
C18_ConfigIsSnapshot ==
    [][\A c \in CallIds :
          (calls[c].kind \in {"config", "http_config"} /\ calls[c].pc = "done") =>
              (IF calls'[c].snap = LiveRef THEN config' ELSE calls'[c].snap)
                  = (IF calls[c].snap = LiveRef THEN config ELSE calls[c].snap)]_vars

\* the Result the synchronous call returns for the attempts in log
SyncResult(log) ==
    IF Last(log).code = 0 THEN ResultOk(Last(log).payload)
    ELSE ResultError(Last(log).msg, Last(log).code)

\* C19: a future-returning async operation hands back a valid future at
\* once, and that future eventually becomes ready with the Result the
\* synchronous call gives for the same attempt outcomes.
C19_FutureBecomesReady ==
    /\ [](\A c \in CallIds :
             calls[c].kind = "future" =>
                 /\ calls[c].disp = "valid"
                 /\ FutureReady(c) =>
                        /\ Len(calls[c].log) >= 1
                        /\ calls[c].result = SyncResult(calls[c].log))
    /\ \A c \in CallIds : [](calls[c].kind = "future" => <>FutureReady(c))

\* C20: the facade goes Constructing -> Ready -> Closing -> Closed and makes
\* no other transition, and once the destructor has begun no request attempt
\* is started, no operation is taken on and none is registered with the
\* tracker.
C20_ClosingTakesNoNewWork ==
    [][/\ life' # life =>
              <<life, life'>> \in {<<"Constructing", "Ready">>, <<"Ready", "Closing">>,
                                   <<"Closing", "Closed">>}
       /\ life \in {"Closing", "Closed"} =>
              /\ \A c \in CallIds :
                     /\ calls'[c].pc = "mr_rpc" => calls[c].pc = "mr_rpc"
                     /\ calls[c].kind = "none" => calls'[c].kind = "none"
              /\ pending_operations' = pending_operations]_vars

\* C21: ping runs under the client lock, answers true only when the channel
\* became connected within connection_timeout_ms of its start and false
\* when the window ran out, ends in nothing but that answer (no exception,
\* no Result), and no step of it changes the configuration or the tracked
\* operations.
C21_PingAnswersWithinTimeout ==
    /\ [](\A c \in CallIds :
             calls[c].kind = "ping" =>
                 /\ calls[c].pc = "pg_wait" => mutex = c
                 /\ calls[c].exception = "none" /\ calls[c].result = NoResult
                 /\ calls[c].pc = "done" =>
                        /\ calls[c].connected =>
                               calls[c].now <= config.connection_timeout_ms
                        /\ ~calls[c].connected =>
                               calls[c].now = config.connection_timeout_ms)
    /\ [][\A c \in CallIds :
              (calls[c].kind = "ping" /\ calls'[c] # calls[c]) =>
                  config' = config /\ pending_operations' = pending_operations]_vars

C21_Witness ==
    \E a, b \in CallIds :
        /\ calls[a].kind = "ping" /\ calls[a].pc = "done" /\ calls[a].connected
        /\ calls[a].now = 50
        /\ calls[b].kind = "ping" /\ calls[b].pc = "done" /\ ~calls[b].connected
        /\ calls[b].now = 100

\* C22: value_or of a Result made by ok(v) is v whatever the default, and
\* value_or of a Result made by error(m, c) is the default whatever the
\* message and the code.
C22_ValueOr ==
    \A c \in CallIds :
        calls[c].pc = "done" =>
            /\ calls[c].kind = "ok" =>
                   \E v \in Payloads :
                       calls[c].result = ResultOk(v) /\ calls[c].response = v
            /\ calls[c].kind \in {"error", "error_default"} =>
                   calls[c].response = calls[c].arg

C22_Witness ==
    \E a, b \in CallIds :
        /\ calls[a].kind = "ok" /\ calls[a].pc = "done"
        /\ calls[a].arg = "d0" /\ calls[a].response = "p1"
        /\ calls[b].kind = "error" /\ calls[b].pc = "done"
        /\ calls[b].result = ResultError("m1", 5) /\ calls[b].response = "d0"

\* C23: a Result is a success or an error and never both: is_ok, the negation
\* of is_error and the conversion to bool agree.  ok(v) gives a success with
\* value v, code 0 and an empty message; error(m, c) gives an error with
\* message m, code c (0 when the code is left out) and no payload.
C23_ResultTwoStates ==
    \A c \in CallIds :
        calls[c].pc = "observed" =>
            LET seen == calls[c].snap
                made == calls[c].status
            IN  /\ seen.is_ok = ~seen.is_error
                /\ seen.is_ok = seen.bool
                /\ calls[c].kind = "ok" =>
                       /\ seen.is_ok
                       /\ seen.value = calls[c].response
                       /\ seen.error_code = 0
                       /\ seen.error = ""
                /\ calls[c].kind \in {"error", "error_default"} =>
                       /\ seen.is_error
                       /\ seen.error = made.msg
                       /\ seen.error_code = made.code
                       /\ calls[c].result.value = NoPayload
                /\ calls[c].kind = "error_default" => seen.error_code = 0

C23_Witness ==
    \E a, b \in CallIds :
        /\ calls[a].kind = "ok" /\ calls[a].pc = "done"
        /\ calls[a].snap.is_ok /\ calls[a].snap.value = "p2"
        /\ calls[b].kind = "error" /\ calls[b].pc = "observed"
        /\ calls[b].snap.is_error /\ calls[b].snap.error = "m2"
        /\ calls[b].snap.error_code = 14

\* the request the specification has a convenience call stand for: the
\* fields given, the limit 10 when it is not given, nothing else set
OnlyGiven(arg) ==
    IF arg.form = "submit_score"
    THEN [op |-> "SubmitScore", leaderboard_id |-> arg.leaderboard_id,
          player_id |-> arg.player_id, score |-> arg.score, metadata |-> "",
          idempotency_key |-> ""]
    ELSE IF arg.form = "get_leaderboard"
    THEN [op |-> "GetLeaderboard", leaderboard_id |-> arg.leaderboard_id,
          limit |-> IF "limit" \in arg.given THEN arg.limit ELSE 10,
          offset |-> 0, period |-> "", view_slug |-> ""]
    ELSE [op |-> "GetPlayerRank", leaderboard_id |-> arg.leaderboard_id,
          player_id |-> arg.player_id, period |-> "", view_slug |-> ""]

\* what the attempts of a call met, and what they sent
OutcomesOf(log) ==
    [i \in 1..Len(log) |-> <<log[i].code, log[i].msg, log[i].payload>>]

\* C24: a convenience call and a full-request call whose request has exactly
\* the given fields set (the limit 10 when not given) that meet the same
\* attempt outcomes make the same attempts and return the same Result.
C24_ConvenienceDelegates ==
    \A a, b \in CallIds :
        (/\ calls[a].kind = "convenience" /\ Returned(a)
         /\ calls[b].kind = "sync" /\ Returned(b)
         /\ calls[b].request = OnlyGiven(calls[a].arg)
         /\ OutcomesOf(calls[a].log) = OutcomesOf(calls[b].log)) =>
            /\ calls[a].log = calls[b].log
            /\ calls[a].sleeps = calls[b].sleeps
            /\ calls[a].result = calls[b].result

C24_Witness ==
    \E a, b \in CallIds :
        /\ calls[a].kind = "convenience" /\ Returned(a)
        /\ calls[a].arg.form = "get_leaderboard"
        /\ calls[a].arg.given = {"leaderboard_id"}
        /\ calls[b].kind = "sync" /\ Returned(b)
        /\ calls[b].request = OnlyGiven(calls[a].arg)
        /\ Len(calls[a].log) = 2
        /\ OutcomesOf(calls[a].log) = OutcomesOf(calls[b].log)

\* C30: every attempt of a request sends the request value the caller
\* supplied, idempotency key and metadata included, and no step changes the
\* caller's request object once the call has begun.
C30_RequestUnmodified ==
    /\ [](\A c \in CallIds :
             calls[c].kind \in {"sync", "convenience"} =>
                 \A i \in 1..Len(calls[c].log) :
                     calls[c].log[i].req = calls[c].request)
    /\ [][\A c \in CallIds :
              calls[c].request # NoRequest => calls'[c].request = calls[c].request]_vars

C30_Witness ==
    \E c \in CallIds :
        /\ calls[c].kind = "sync" /\ Returned(c)
        /\ calls[c].request.op = "SubmitScore"
        /\ calls[c].request.idempotency_key = "i1"
        /\ calls[c].request.metadata = "md"
        /\ Len(calls[c].log) = 2
        /\ calls[c].log[1].req = calls[c].request
        /\ calls[c].log[2].req = calls[c].request

\* C25: every attempt carries the deadline (time at its start +
\* request_timeout_ms); a later attempt starts later, after the earlier
\* attempts and sleeps, and its deadline is later by as much, so the window
\* is neither shared nor shortened.
C25_DeadlinePerAttempt ==
    \A c \in CallIds :
        \A i \in 1..Len(calls[c].log) :
            LET log == calls[c].log
            IN  /\ log[i].ctx.deadline = log[i].start + config.request_timeout_ms
                /\ i > 1 =>
                       /\ log[i].start > log[i - 1].start
                       /\ log[i].ctx.deadline > log[i - 1].ctx.deadline

C25_Witness ==
    \E c \in CallIds :
        /\ Len(calls[c].log) = 3
        /\ Len(calls[c].sleeps) = 2
        /\ calls[c].log[2].start >= calls[c].log[1].ctx.deadline
        /\ calls[c].log[3].ctx.deadline =
               calls[c].log[3].start + config.request_timeout_ms

\* the attempt's outcome is a 2xx response
Is2xx(o) == o.error.name = "Success" /\ o.status >= 200 /\ o.status <= 299

\* the texts a decode failure may carry
DecodeErrors ==
    {<<Chars("JSON parse error: "), Chars(w)>> :
        w \in {"parse_error", "type_error", "out_of_range"}}

\* C28: a 2xx response ends the request: no attempt follows it; when its
\* body does not decode into the response type the Result is an error with
\* that 2xx status as its code and a decode-error message, and otherwise a
\* success.
C28_DecodeFailureIsTerminal ==
    \A c \in CallIds :
        calls[c].kind = "http_sync" =>
            /\ \A i \in 1..(Len(calls[c].log) - 1) : ~Is2xx(calls[c].log[i])
            /\ (calls[c].pc = "done" /\ Is2xx(Last(calls[c].log))) =>
                   LET last == Last(calls[c].log)
                       j == json_parse(last.body)
                       decodes == j.ok /\ get_response(calls[c].arg, j).ok
                   IN  /\ decodes <=> calls[c].result.success
                       /\ ~decodes =>
                              /\ calls[c].result.error_code = last.status
                              /\ calls[c].result.error_message \in DecodeErrors
                              /\ calls[c].result.value = NoPayload

C28_Witness ==
    \E c \in CallIds :
        /\ calls[c].kind = "http_sync" /\ calls[c].pc = "done"
        /\ calls[c].arg = "submit_score"
        /\ Len(calls[c].log) = 2
        /\ Last(calls[c].log).status = 204
        /\ Last(calls[c].log).body = <<>>
        /\ calls[c].result.error_code = 204
        /\ config.max_retries = 2

\* the text of a member as the fallback chain takes it
FieldText(tok) == IF tok.t = "str" THEN <<Chars(tok.s)>> ELSE <<tok>>

\* the message the fallback chain names for an error response
SpecChain(response) ==
    LET j == json_parse(response.body)
    IN  IF j.ok /\ contains(j, "message") THEN FieldText(j.members["message"])
        ELSE IF j.ok /\ contains(j, "error") THEN FieldText(j.members["error"])
        ELSE IF Len(response.body) > 0 THEN response.body
        ELSE <<Chars("HTTP ")>> \o to_string(response.status)

\* C29: for a response outside 2xx the Result is an error with the status
\* as its code and the message the chain gives: the body's `message`, else
\* its `error`, else the body, else "HTTP <code>" for an empty body.
C29_ErrorMessageFallbackChain ==
    \A c \in CallIds :
        (/\ calls[c].kind = "http_sync" /\ calls[c].pc = "done"
         /\ HasResponse(Last(calls[c].log))
         /\ ~Is2xx(Last(calls[c].log))) =>
            calls[c].result =
                ResultError(SpecChain(Last(calls[c].log)), Last(calls[c].log).status)

\* the retryable class in the HTTP client's vocabulary: no connection or a
\* timed-out read, and the statuses for unavailable, deadline exceeded, rate
\* limiting and aborted
HttpRetryableFailure(o) ==
    \/ o.error.name \in {"Connection", "Read"}
    \/ o.error.name = "Success" /\ o.status \in {503, 504, 429, 409}

\* C26: in the HTTP client only failures of the retryable class are followed
\* by a further attempt, and a request that ends on such a failure has used
\* its whole budget of max_retries + 1 attempts and returns an error.
C26_HttpRetryableAbsorbed ==
    \A c \in CallIds :
        calls[c].kind = "http_sync" =>
            /\ \A i \in 1..(Len(calls[c].log) - 1) :
                   HttpRetryableFailure(calls[c].log[i])
            /\ (calls[c].pc = "done" /\ HttpRetryableFailure(Last(calls[c].log))) =>
                   /\ Len(calls[c].log) = config.max_retries + 1
                   /\ ~calls[c].result.success

\* C27: when the HTTP client's destructor has returned, every callback-based
\* operation that was dispatched has finished: no worker is still on its
\* way to the lock, the configuration or the transport handle.
C27_HttpDestructorWaits ==
    life = "Closed" =>
        \A c \in CallIds :
            calls[c].kind = "http_callback" => calls[c].pc = "done"

\* C31: all attempts of one request carry the same credential, and while a
\* request is in its retry sequence the stored key stays the one its first
\* attempt was made with: a set_api_key issued meanwhile waits for the lock.
C31_OneCredentialPerRequest ==
    \A c \in CallIds :
        /\ \A i, j \in 1..Len(calls[c].log) :
               calls[c].log[i].ctx.authorization = calls[c].log[j].ctx.authorization
        /\ (InLoop(c) /\ Len(calls[c].log) >= 1) =>
               Credential(config.api_key) = calls[c].log[1].ctx.authorization

C31_Witness ==
    \E a, b \in CallIds :
        /\ calls[a].pc = "mr_rpc" /\ Len(calls[a].log) = 1
        /\ calls[a].ctx.authorization = <<"Bearer", Key("k0")>>
        /\ calls[b].kind = "set_api_key" /\ calls[b].pc = "sk_lock"
        /\ calls[b].arg = Key("k1")

\* the operations the tracker holds
Tracked == {pending_operations[i] : i \in 1..Len(pending_operations)}

\* C32: every callback-based operation whose dispatch has registered it and
\* whose worker has not finished is in pending_operations, and when the
\* destructor has returned every registered operation has finished.
C32_TrackerKeepsUnfinished ==
    \A c \in CallIds :
        (calls[c].kind = "callback" /\ calls[c].disp = "added") =>
            /\ ~FutureReady(c) => c \in Tracked
            /\ life = "Closed" => FutureReady(c)

C32_Witness ==
    \E a, b \in CallIds :
        /\ calls[a].kind = "callback" /\ calls[a].disp = "added" /\ FutureReady(a)
        /\ calls[b].kind = "callback" /\ calls[b].disp = "added" /\ ~FutureReady(b)
        /\ pending_operations = <<b>>

\* C33: once the destructor of the gRPC client has begun it completes, also
\* when a callback dispatches a further operation while the destructor
\* waits (stated for the builds whose ~unique_ptr keeps impl_ in place
\* during ~Impl).
C33_TeardownCompletes ==
    stdlib = "keeps_pointer" => [](life = "Closing" => <>(life = "Closed"))

\* C34: once the gRPC client has been destroyed no worker takes a further
\* step of a request (no attempt, no locking of the client lock), and the
\* client lock is not held; operations whose future went to the caller
\* included.
C34_NothingRunsAfterDestroy ==
    /\ [](life = "Closed" => mutex = 0)
    /\ [][(life = "Closed") => (calls' = calls /\ mutex' = mutex)]_vars

\* C35: after a move the new client works with the configuration of the
\* source, and no thread faults on the impl_ of the moved-from client: an
\* operation dispatched before the move runs on against the Impl it was
\* dispatched on.
C35_MoveKeepsWorkersSafe ==
    life = "Moved" =>
        \A c \in CallIds :
            /\ calls[c].pc # "crashed"
            /\ (calls[c].kind = "config" /\ calls[c].pc = "done") =>
                   calls[c].snap = config
            /\ (calls[c].kind = "sync" /\ calls[c].pc = "done") =>
                   calls[c].result # NoResult

\* C36: with a configuration that validate() accepts, every backoff delay the
\* loop computes, for retries in 0..max_retries-1, is the exact product
\* retry_delay_ms * 2^retries: it fits a 32-bit signed int, so it is not
\* negative and dividing it by 2^retries gives retry_delay_ms back.
C36_ValidatedBackoffFits ==
    validate(config) =>
        \A c \in CallIds :
            \A s \in 1..Len(calls[c].sleeps) :
                LET r == calls[c].sleeps[s].after
                    delay == calls[c].sleeps[s].delay
                IN  /\ r \in 0..(config.max_retries - 1)
                    /\ delay >= 0
                    /\ delay \div (2 ^ r) = config.retry_delay_ms

\* a thread at one of these places is waiting for the client lock
LockWaits == {"mr_lock", "sk_lock", "cf_lock", "pg_lock"}

\* a thread at one of these places holds the client lock and is running
LockHeld == {"mr_loop", "mr_rpc", "mr_sleep", "mr_fail", "sk_write", "sk_finish",
             "cf_copy", "cf_finish", "pg_wait"}

\* C37: a callback runs only when its operation's make_request has returned
\* its Result and released the client lock; so whenever a synchronous call
\* that the callback makes on the same client waits for the lock, the lock
\* is free or held by another thread that is running inside its own call
\* (never by the callback's own thread): the call cannot deadlock.
C37_CallbackRunsUnlocked ==
    \A c \in CallIds :
        calls[c].pc = "cb" =>
            /\ Returned(c)
            /\ mutex # c
            /\ \A d \in CallIds :
                   (calls[d].by = c /\ calls[d].pc \in LockWaits) =>
                       \/ mutex = 0
                       \/ /\ mutex \in CallIds \ {c, d}
                          /\ calls[mutex].pc \in LockHeld

\* a callback is waiting for the client lock in a synchronous call it made,
\* while another thread holds the lock
C37_Witness ==
    \E c, d \in CallIds :
        /\ calls[c].kind = "callback" /\ calls[c].pc = "cb"
        /\ calls[d].by = c
        /\ calls[d].pc \in {"mr_lock", "sk_lock", "cf_lock", "pg_lock"}
        /\ mutex \notin {0, c, d}

C39_ConstructedMeansLogging ==
    /\ \A t \in LogThreads :
           LogThread(t).last.op = "construct" => LogThread(t).last.initialized
    /\ logging.shutdowns <= logging.inits

====
